---- MODULE Spec2Model ----
(***************************************************************************)
(* Model of the dictation pipeline of dictara (src-tauri):                 *)
(*   - RecordingStateManager (recording/state_manager.rs): the transition  *)
(*     table, transition() and reset();                                    *)
(*   - Controller (recording/controller.rs): the command loop and the      *)
(*     start / stop / cancel / retry handlers, with the transcription      *)
(*     client (clients/openai.rs), the recorder (recording/                *)
(*     audio_recorder.rs), the paste step (clipboard_paste.rs) and the     *)
(*     UI-thread commands (commands/recording.rs).                         *)
(***************************************************************************)
EXTENDS Integers, Sequences, FiniteSets, TLC

\* ------------------------------------------------------------------------
\* Bounds of the model
\* ------------------------------------------------------------------------
\* number of transition()/reset() calls recorded for the state manager
MaxHist == 3
\* number of commands the producers send into the command channel
MaxCommands == 4
\* capacity of the bounded command channel
ChanCap == 2
\* number of key events delivered to the KeyListener
MaxKeyEvents == 6
\* number of key events delivered next to the UI commands
MaxKeyEventsUI == 4
\* number of key events delivered next to the mode updates
MaxKeyEventsModes == 3
\* number of mode updates sent to the KeyListener
MaxModeUpdates == 2
\* number of commands sent by the UI next to the KeyListener
MaxUiCommands == 1
\* number of keys of the shortcuts given to matches, validate and
\* save_shortcuts_config
MaxKeysLen == 4
\* number of frames the inner detector has a decision for, and number of
\* calls of the audio callback
MaxFrames == 3
MaxCallbacks == 3
\* number of frames pushed to a SmoothedVad on its own
MaxSmoothedFrames == 9
\* calls made on the ModelLoader by all threads together
MaxLoaderCalls == 2
\* texts copied by other applications while a paste is under way
MaxForeignWrites == 2
\* recording sessions started on one AudioRecorder, and frames pushed to its
\* VAD over all of them
MaxSessions == 2
MaxSessionFrames == 4
\* lengths of the runs of voiced and of unvoiced frames given to the
\* recorder's VAD
MaxVoiceRun == 2
MaxNoiseRun == 16
\* times the OS disables the event tap, and changes of the accessibility
\* permission, during one grab
MaxDisables == 2
MaxPermissionChanges == 2

\* ------------------------------------------------------------------------
\* Program constants
\* ------------------------------------------------------------------------
\* clients/openai.rs: MIN_AUDIO_DURATION_MS
MIN_AUDIO_DURATION_MS == 500
\* clients/openai.rs: MAX_FILE_SIZE_BYTES = 25 * 1024 * 1024
MAX_FILE_SIZE_BYTES == 26214400
\* keyboard_listener.rs: mpsc::channel(10) of the mode updates
MODE_CHANNEL_CAPACITY == 10
\* recording/vad.rs: SAMPLE_RATE, FRAME_SAMPLES
SAMPLE_RATE == 16000
FRAME_SAMPLES == 512
\* recording/audio_recorder.rs: VAD_PREFILL_FRAMES, VAD_HANGOVER_FRAMES,
\* VAD_ONSET_FRAMES
VAD_PREFILL_FRAMES == 14
VAD_HANGOVER_FRAMES == 14
VAD_ONSET_FRAMES == 2

\* ------------------------------------------------------------------------
\* Types of recording/commands.rs and recording/state_manager.rs
\* ------------------------------------------------------------------------
RecordingCommand ==
    {"StartRecording", "StopRecording", "LockRecording", "Cancel", "RetryTranscription"}

RecordingEvent == {"Start", "Stop", "Lock", "Cancel", "Retry"}

RecordingAction ==
    {"StartRecording", "StopAndTranscribe", "CancelRecording", "RetryTranscription"}

RecordingState == {"Ready", "Recording", "RecordingLocked", "Transcribing"}

\* Option::None of a state, action, command or text
None == "None"

\* Option::None of a file path (paths are numbered from 1)
NoPath == 0

\* Option::<Recording>::None
NoRecording == [file |-> 0, ep |-> 0]

\* no transcription job, no transcription result
NoJob == [path |-> 0, duration_ms |-> 0, speech_duration_ms |-> 0, ep |-> 0]

NoResult == [ok |-> FALSE, text |-> "None", error |-> "None", called |-> FALSE]

\* impl From<RecordingCommand> for RecordingEvent
FromCommand(command) ==
    CASE command = "StartRecording" -> "Start"
      [] command = "StopRecording" -> "Stop"
      [] command = "LockRecording" -> "Lock"
      [] command = "Cancel" -> "Cancel"
      [] command = "RetryTranscription" -> "Retry"

\* Some((new_state, action)) of compute_transition
SomeT(to, action) == [some |-> TRUE, to |-> to, action |-> action]

\* None of compute_transition
NoneT == [some |-> FALSE, to |-> None, action |-> None]

\* compute_transition with Retry accepted while Recording
compute_transition_recording_retry(current, event) ==
    CASE current = "Ready" ->
           (CASE event = "Start" -> SomeT("Recording", "StartRecording")
              [] event = "Retry" -> SomeT("Transcribing", "RetryTranscription")
              [] OTHER -> NoneT)
      [] current = "Recording" ->
           (CASE event = "Stop" -> SomeT("Transcribing", "StopAndTranscribe")
              [] event = "Lock" -> SomeT("RecordingLocked", None)
              [] event = "Cancel" -> SomeT("Ready", "CancelRecording")
              [] event = "Retry" -> SomeT("Transcribing", "RetryTranscription")
              [] OTHER -> NoneT)
      [] current = "RecordingLocked" ->
           (CASE event = "Start" -> SomeT("Transcribing", "StopAndTranscribe")
              [] event = "Cancel" -> SomeT("Ready", "CancelRecording")
              [] OTHER -> NoneT)
      [] current = "Transcribing" -> NoneT

\* compute_transition with Cancel accepted while Transcribing
compute_transition_cancel_transcribing(current, event) ==
    CASE current = "Ready" ->
           (CASE event = "Start" -> SomeT("Recording", "StartRecording")
              [] event = "Retry" -> SomeT("Transcribing", "RetryTranscription")
              [] OTHER -> NoneT)
      [] current = "Recording" ->
           (CASE event = "Stop" -> SomeT("Transcribing", "StopAndTranscribe")
              [] event = "Lock" -> SomeT("RecordingLocked", None)
              [] event = "Cancel" -> SomeT("Ready", "CancelRecording")
              [] OTHER -> NoneT)
      [] current = "RecordingLocked" ->
           (CASE event = "Start" -> SomeT("Transcribing", "StopAndTranscribe")
              [] event = "Cancel" -> SomeT("Ready", "CancelRecording")
              [] OTHER -> NoneT)
      [] current = "Transcribing" ->
           (CASE event = "Cancel" -> SomeT("Ready", "CancelRecording")
              [] OTHER -> NoneT)

\* RecordingStateManager::compute_transition
compute_transition(current, event) ==
    CASE current = "Ready" ->
           (CASE event = "Start" -> SomeT("Recording", "StartRecording")
              [] event = "Retry" -> SomeT("Transcribing", "RetryTranscription")
              [] OTHER -> NoneT)
      [] current = "Recording" ->
           (CASE event = "Stop" -> SomeT("Transcribing", "StopAndTranscribe")
              [] event = "Lock" -> SomeT("RecordingLocked", None)
              [] event = "Cancel" -> SomeT("Ready", "CancelRecording")
              [] OTHER -> NoneT)
      [] current = "RecordingLocked" ->
           (CASE event = "Start" -> SomeT("Transcribing", "StopAndTranscribe")
              [] event = "Cancel" -> SomeT("Ready", "CancelRecording")
              [] OTHER -> NoneT)
      [] current = "Transcribing" -> NoneT

\* RecordingState::is_busy
is_busy(s) == s /= "Ready"

VARIABLES
    \* RecordingStateManager.state
    sm_state,
    \* the calls made on the state manager and what each returned
    sm_hist,
    \* the command channel (commands sent and not yet received)
    chan,
    \* every command sent, in send order / every command received, in order
    sent_cmds, recv_cmds,
    \* Controller.state and Controller.shared_state
    state, shared_state,
    \* position of the Controller thread in run() and its handlers
    pc,
    \* run()'s current_recording, and the session moved into a handler
    current_recording, recording,
    \* the recordings directory: path -> milliseconds of audio in the file
    files,
    \* the next file name, the number of episodes begun so far
    next_file, episode,
    \* the command being handled: its handler, the state it was received in,
    \* its episode and session file, whether the handler returned Err
    handling,
    \* the file and duration handed to the transcription (recording_result, or
    \* the path and estimate of a retry), and the transcription's result
    job, tr,
    \* LastRecordingState
    last_recording,
    \* the UI events emitted, the pastes done, the backend requests made
    log, pasted, backend_calls,
    \* KeyListener thread: its mode, the mode-update channel, pressed_keys
    mode, mode_rx, pressed_keys,
    \* the keys physically held down
    down,
    \* the keys whose latest press the callback suppressed (returned None),
    \* the release not yet delivered
    swallowed,
    \* position of the KeyListener thread in the grab callback, the commands
    \* the callback still has to send
    kl_pc, kl_out,
    \* what the callback did with the key event it is processing (or
    \* processed last)
    kl_ev,
    \* number of key events delivered, of mode updates sent, of UI commands
    n_keys, n_modes, n_ui,
    \* the mode update sent last
    last_sent_mode,
    \* who sent each command of sent_cmds
    senders,
    \* a hands-free start made from a quiet Ready state is in force: no key
    \* was pressed and no UI stop / cancel was sent since; and whether the
    \* hands-free start in force was made with the Controller idle in Ready
    \* and the command channel empty
    armed, quiet,
    \* the shortcuts configuration in the config store
    config_store,
    \* the argument of the shortcut operation under check, and what the
    \* operation applied last did
    sc_in, sc_call,
    \* AudioRecorder.vad is Some, and the SmoothedVad behind it
    vad_enabled, vad,
    \* what the inner detector answers for the 1st, 2nd, ... frame pushed
    inner,
    \* the VAD accumulator of the audio callback
    vad_buffer,
    \* number of mono samples and of callbacks delivered so far
    n_samples, n_callbacks,
    \* the frames pushed to the VAD and what push_frame returned for each
    pushed, emitted,
    \* the samples in the output WAV, Recording.speech_sample_count
    wav, speech_sample_count,
    \* number of write_samples_to_wav calls, and which of them hits a write
    \* error (0: none)
    n_writes, write_fail,
    \* the RecordingResult of Recording::stop
    recording_result,
    \* ModelLoader.current_model and ModelLoader.loading
    current_model, loading,
    \* per thread: where it stands in a ModelLoader call, and the call
    \* (operation, model name, number of the call, what LocalClient::new
    \* gave, what the call returned)
    ml_pc, ml_call,
    \* the ModelLoadingStateChanged events emitted, each with the number of
    \* the load_model call that emitted it
    ml_events,
    \* the inferences run: the model asked for and the model used
    ml_inferences,
    \* number of ModelLoader calls started
    n_loader_calls,
    \* the system clipboard's text, if it holds one
    clipboard,
    \* where the paste call and its restore thread stand, and the call
    \* (function, text, the clipboard text saved, what the call returned)
    ps_pc, ps_call,
    \* the key events posted to the HID event tap
    ps_keys,
    \* every read and write of the clipboard, by the paste call and by others
    cb_log,
    \* the arguments of the Transcriber::transcribe call under check with the
    \* configuration and the file it meets, and what the call did
    tx_in, tx_call,
    \* number of recording sessions started on the AudioRecorder, and number
    \* of frames pushed to its VAD before the current session started
    n_sessions, session_first,
    \* application_is_trusted(): the accessibility permission is granted
    accessibility,
    \* the event tap is enabled; the statics TAP_REF and RUN_LOOP_REF are not
    \* null
    tap_enabled, TAP_REF, RUN_LOOP_REF,
    \* the run loop of the thread that called grab
    run_loop,
    \* the flag stop_polling; where grab and the polling thread stand
    stop_polling, grab_pc, poll_pc,
    \* the tap-disabled event the OS has posted to the callback and the
    \* callback has not yet handled
    notification,
    \* what event_tap_callback did on each tap-disabled event it handled
    tap_calls,
    \* number of times the OS disabled the tap, and of changes of the
    \* accessibility permission
    n_disables, n_permission_changes

sm_vars == <<sm_state, sm_hist>>

chan_vars == <<chan, sent_cmds, recv_cmds>>

ctl_vars == <<state, shared_state, pc, current_recording, recording, files,
              next_file, episode, handling, job, tr, last_recording, log,
              pasted, backend_calls>>

kl_vars == <<mode, mode_rx, pressed_keys, down, swallowed, kl_pc, kl_out,
             kl_ev, n_keys,
             n_modes, n_ui, last_sent_mode, senders, armed, quiet>>

cfg_vars == <<config_store, sc_in, sc_call>>

vad_vars == <<vad_enabled, vad, inner, vad_buffer, n_samples, n_callbacks,
              pushed, emitted, wav, speech_sample_count, n_writes, write_fail,
              recording_result>>

ml_vars == <<current_model, loading, ml_pc, ml_call, ml_events, ml_inferences,
             n_loader_calls>>

ps_vars == <<clipboard, ps_pc, ps_call, ps_keys, cb_log>>

\* the variables of the subsystems modelled on their own
tx_vars == <<tx_in, tx_call>>

vs_vars == <<n_sessions, session_first>>

tap_vars == <<accessibility, tap_enabled, TAP_REF, RUN_LOOP_REF, run_loop,
              stop_polling, grab_pc, poll_pc, notification, tap_calls,
              n_disables, n_permission_changes>>

rest_vars == <<ps_vars, tx_vars, vs_vars, tap_vars>>

\* the variables of the Controller, the KeyListener, the configuration, the
\* recorder and the model loader
core_vars == <<sm_vars, chan_vars, ctl_vars, kl_vars, cfg_vars, vad_vars, ml_vars>>

non_ps_vars == <<core_vars, tx_vars, vs_vars, tap_vars>>

non_tx_vars == <<core_vars, ps_vars, vs_vars, tap_vars>>

aux_vars == <<cfg_vars, vad_vars, ml_vars, rest_vars>>

vars == <<sm_vars, chan_vars, ctl_vars, kl_vars, aux_vars>>

\* ------------------------------------------------------------------------
\* Types and initial state of the KeyListener (keyboard_listener.rs)
\* ------------------------------------------------------------------------
\* macOS keycodes of the Fn key and of Space
FN_KEYCODE == 63

SPACE_KEYCODE == 49

\* the keys of the keyboard
Keys == {FN_KEYCODE, SPACE_KEYCODE}

\* ShortcutsConfig::default: push-to-record {Fn}, hands-free {Fn, Space}
DefaultShortcuts ==
    [push_to_record |-> <<FN_KEYCODE>>,
     hands_free |-> <<FN_KEYCODE, SPACE_KEYCODE>>]

\* the ShortcutsConfig values the listener is started or updated with
ShortcutConfigs ==
    { DefaultShortcuts,
      [push_to_record |-> <<FN_KEYCODE>>, hands_free |-> <<SPACE_KEYCODE>>] }

\* the shortcuts field of a mode that has none
NoShortcuts == [push_to_record |-> << >>, hands_free |-> << >>]

\* ListenerMode::Normal { shortcuts }
NormalMode(shortcuts) == [kind |-> "Normal", shortcuts |-> shortcuts]

\* ListenerMode::Capture { app_handle }
CaptureMode == [kind |-> "Capture", shortcuts |-> NoShortcuts]

\* no mode update was sent yet
NoMode == [kind |-> "None", shortcuts |-> NoShortcuts]

\* no key event was processed yet
NoKeyEvent ==
    [type |-> "none", key |-> 0, mode |-> NoMode, drained |-> 0,
     pressed_at_start |-> {}, was_push |-> FALSE, is_push |-> FALSE,
     was_hf |-> FALSE, is_hf |-> FALSE, rose_push |-> FALSE,
     rose_hf |-> FALSE, fell_push |-> FALSE, push_read |-> "None",
     hf_read |-> "None", release_read |-> "None", sent |-> << >>,
     suppressed |-> FALSE, ui |-> "None", done |-> TRUE]

\* KeyListener::start: Normal mode with the initial config, no key pressed,
\* an empty mode-update channel
KlInit(initial_config) ==
    /\ mode = NormalMode(initial_config)
    /\ mode_rx = << >>
    /\ pressed_keys = {}
    /\ down = {}
    /\ swallowed = {}
    /\ kl_pc = "wait"
    /\ kl_out = << >>
    /\ kl_ev = NoKeyEvent
    /\ n_keys = 0
    /\ n_modes = 0
    /\ n_ui = 0
    /\ last_sent_mode = NoMode
    /\ senders = << >>
    /\ armed = FALSE
    /\ quiet = FALSE

\* the keycodes of the ShortcutKey values the shortcut operations are
\* applied to: four of them, so that a shortcut of four distinct keys exists
KeyCodes == {FN_KEYCODE, SPACE_KEYCODE, 0, 1}

\* the Shortcut values: Vecs of up to MaxKeysLen keycodes
Shortcuts == UNION { [1..n -> KeyCodes] : n \in 0..MaxKeysLen }

\* no argument, no operation applied yet
NoShortcutArg == [keys |-> << >>, pressed_keys |-> {}, config |-> NoShortcuts]

NoShortcutCall == [op |-> "none"]

\* the config store without a shortcutsConfig entry
NoStoredConfig == [present |-> FALSE, value |-> NoShortcuts]

\* the config store of a fresh installation
CfgInit ==
    /\ config_store = NoStoredConfig
    /\ sc_in = NoShortcutArg
    /\ sc_call = NoShortcutCall

\* SmoothedVad::new
\* SileroVad::new: the RNN state tensor and the context are zeros; the
\* context is named by the last sample it holds
SileroVad == [state |-> "zeros", context |-> 0]

SmoothedVad(prefill_frames, hangover_frames, onset_frames) ==
    [prefill_frames |-> prefill_frames,
     hangover_frames |-> hangover_frames,
     onset_frames |-> onset_frames,
     frame_buffer |-> << >>,
     hangover_counter |-> 0,
     onset_counter |-> 0,
     in_speech |-> FALSE,
     temp_out |-> << >>,
     inner_vad |-> SileroVad]

\* no RecordingResult yet
NoRecordingResult == [stopped |-> FALSE, speech_duration_ms |-> 0]

\* AudioRecorder::create_vad and the start of a recording: the SmoothedVad
\* over the inner detector, empty accumulator, empty WAV, counter 0
VadInit(enabled, decisions, failing_write) ==
    /\ vad_enabled = enabled
    /\ vad = SmoothedVad(VAD_PREFILL_FRAMES, VAD_HANGOVER_FRAMES, VAD_ONSET_FRAMES)
    /\ inner = decisions
    /\ vad_buffer = << >>
    /\ n_samples = 0
    /\ n_callbacks = 0
    /\ pushed = << >>
    /\ emitted = << >>
    /\ wav = << >>
    /\ speech_sample_count = 0
    /\ n_writes = 0
    /\ write_fail = failing_write
    /\ recording_result = NoRecordingResult

\* the model names callers pass: two entries of the catalog and a name
\* that is not in it
ModelNames == {"M1", "M2", "unknown"}

\* get_model_catalog, by name
ModelCatalog == {"M1", "M2"}

\* the threads calling into the ModelLoader: the async runtime's workers
\* running commands and the thread transcribing a recording
Threads == {"t1", "t2"}

NoModel == [present |-> FALSE, name |-> "none"]

SomeModel(name) == [present |-> TRUE, name |-> name]

NoLoaderCall ==
    [op |-> "none", name |-> "none", id |-> 0, client |-> "none",
     result |-> "none"]

\* ModelLoader::new: nothing loaded, nothing loading, no call in progress
MlInit ==
    /\ current_model = NoModel
    /\ loading = NoModel
    /\ ml_pc = [t \in Threads |-> "idle"]
    /\ ml_call = [t \in Threads |-> NoLoaderCall]
    /\ ml_events = << >>
    /\ ml_inferences = {}
    /\ n_loader_calls = 0

\* Option<String>: None
NoText == [present |-> FALSE, text |-> ""]

\* Option<String>: Some(text)
SomeText(text) == [present |-> TRUE, text |-> text]

NoPasteCall ==
    [function |-> "none", text |-> "", previous_clipboard |-> NoText,
     result |-> "none"]

\* no paste was asked for; the clipboard holds initial
PsInit(initial) ==
    /\ clipboard = initial
    /\ ps_pc = "idle"
    /\ ps_call = NoPasteCall
    /\ ps_keys = << >>
    /\ cb_log = << >>

NoTranscribeArg ==
    [min_speech_duration_ms |-> 0, duration_ms |-> 0, exists |-> FALSE,
     file_size |-> 0]

NoTranscribeCall ==
    [op |-> "none", result |-> "none", text |-> "", service_called |-> FALSE]

TxInit ==
    /\ tx_in = NoTranscribeArg
    /\ tx_call = NoTranscribeCall

\* the first recording session of the AudioRecorder
VsInit ==
    /\ n_sessions = 1
    /\ session_first = 0

\* before grab is called: no tap, no run loop running, no polling thread
TapInit(granted) ==
    /\ accessibility = granted
    /\ tap_enabled = FALSE
    /\ TAP_REF = FALSE
    /\ RUN_LOOP_REF = FALSE
    /\ run_loop = "idle"
    /\ stop_polling = FALSE
    /\ grab_pc = "start"
    /\ poll_pc = "none"
    /\ notification = "None"
    /\ tap_calls = << >>
    /\ n_disables = 0
    /\ n_permission_changes = 0

RestInit == PsInit(NoText) /\ TxInit /\ VsInit /\ TapInit(TRUE)

AuxInit == CfgInit /\ VadInit(TRUE, << >>, 0) /\ MlInit /\ RestInit

\* Controller::new and the start of run(): Ready, no session, empty channel
CtlInit ==
    /\ chan = << >>
    /\ sent_cmds = << >>
    /\ recv_cmds = << >>
    /\ state = "Ready"
    /\ shared_state = 0
    /\ pc = "idle"
    /\ current_recording = NoRecording
    /\ recording = NoRecording
    /\ files = << >>
    /\ next_file = 1
    /\ episode = 0
    /\ handling = [cmd |-> None, handler |-> "none", from |-> "Ready",
                   ep |-> 0, file |-> NoPath, failed |-> FALSE]
    /\ job = NoJob
    /\ tr = NoResult
    /\ last_recording = [text |-> None, timestamp |-> None,
                         audio_file_path |-> NoPath]
    /\ log = << >>
    /\ pasted = << >>
    /\ backend_calls = << >>

\* the initial state of the Controller, the KeyListener, the configuration,
\* the recorder and the model loader
CoreInit ==
    /\ sm_state = "Ready"
    /\ sm_hist = << >>
    /\ CtlInit
    /\ KlInit(DefaultShortcuts)
    /\ CfgInit
    /\ VadInit(TRUE, << >>, 0)
    /\ MlInit

\* RecordingStateManager::new
SmInit ==
    /\ sm_state = "Ready"
    /\ sm_hist = << >>
    /\ CtlInit
    /\ KlInit(DefaultShortcuts)
    /\ AuxInit

\* transition() with a rejected event putting the state back to Ready
TransitionReturn_rejected_resets(current, event) ==
    LET t == compute_transition(current, event) IN
    IF ~t.some
      THEN [call |-> "transition", event |-> event, from |-> current,
            result |-> "Rejected", to |-> "Ready", action |-> None]
      ELSE IF t.to = current
        THEN [call |-> "transition", event |-> event, from |-> current,
              result |-> "Unchanged", to |-> current, action |-> None]
        ELSE [call |-> "transition", event |-> event, from |-> current,
              result |-> "Changed", to |-> t.to, action |-> t.action]

\* the value transition() returns for (current, event)
TransitionReturn(current, event) ==
    LET t == compute_transition(current, event) IN
    IF ~t.some
      THEN [call |-> "transition", event |-> event, from |-> current,
            result |-> "Rejected", to |-> current, action |-> None]
      ELSE IF t.to = current
        THEN [call |-> "transition", event |-> event, from |-> current,
              result |-> "Unchanged", to |-> current, action |-> None]
        ELSE [call |-> "transition", event |-> event, from |-> current,
              result |-> "Changed", to |-> t.to, action |-> t.action]

\* RecordingStateManager::transition, called with the event of a command
transition(command) ==
    LET r == TransitionReturn(sm_state, FromCommand(command)) IN
    /\ Len(sm_hist) < MaxHist
    /\ sm_state' = r.to
    /\ sm_hist' = Append(sm_hist, r)
    /\ UNCHANGED <<chan_vars, ctl_vars, kl_vars, aux_vars>>

\* RecordingStateManager::reset
reset ==
    /\ Len(sm_hist) < MaxHist
    /\ sm_state' = "Ready"
    /\ sm_hist' = Append(sm_hist,
          [call |-> "reset", event |-> None, from |-> sm_state,
           result |-> "Reset", to |-> "Ready", action |-> None])
    /\ UNCHANGED <<chan_vars, ctl_vars, kl_vars, aux_vars>>

SmNext ==
    \/ \E command \in RecordingCommand : transition(command)
    \/ reset

SpecSM == SmInit /\ [][SmNext]_vars

\* ------------------------------------------------------------------------
\* The Controller (recording/controller.rs) and its collaborators
\* ------------------------------------------------------------------------
\* The arms of run() are named FnDown, FnUp and Lock in controller.rs; they
\* are the commands StartRecording, StopRecording and LockRecording of
\* commands.rs (stop_recording sends FnUp in tauri_commands.rs and
\* StopRecording in commands/recording.rs).

\* ControllerState
ControllerState == {"Ready", "Recording", "RecordingLocked"}

\* the value set_state stores into shared_state
StateValue(s) ==
    CASE s = "Ready" -> 0
      [] s = "Recording" -> 1
      [] s = "RecordingLocked" -> 2

\* Controller::set_state
set_state(new_state) ==
    /\ state' = new_state
    /\ shared_state' = StateValue(new_state)

\* the (wall-clock, speech) durations a stopped session may report
RecordingDurations ==
    { [duration_ms |-> 300, speech_duration_ms |-> 0],
      [duration_ms |-> 2000, speech_duration_ms |-> 0],
      [duration_ms |-> 2000, speech_duration_ms |-> 300],
      [duration_ms |-> 2000, speech_duration_ms |-> 2000] }

\* the texts the transcription API may return
Texts == {"", "hello"}

\* bytes of a 16 kHz mono 16-bit WAV file holding ms milliseconds of audio
FileSize(ms) == 44 + ms * 32

\* fs::remove_file on a path (a missing file stays missing)
RemoveFile(fs, path) == [p \in (DOMAIN fs) \ {path} |-> fs[p]]

\* File::create of a new, empty recording
CreateFile(fs, path) == [p \in (DOMAIN fs) \cup {path} |-> IF p = path THEN 0 ELSE fs[p]]

\* the samples written to the file by the time the session stops
WriteFile(fs, path, ms) == [p \in DOMAIN fs |-> IF p = path THEN ms ELSE fs[p]]

\* handle_retry_transcription's estimate of the duration from the file size
EstimatedDuration(size) == (size * 1000) \div 32000

\* OpenAIClient::transcribe_audio_sync: the results it may return for a file
\* (present or not, of the given size) and a duration; called tells whether
\* the request was sent to the backend
transcribe_audio_sync(exists, size, duration_ms) ==
    IF duration_ms < MIN_AUDIO_DURATION_MS
      THEN { [ok |-> TRUE, text |-> "", error |-> None, called |-> FALSE] }
    ELSE IF ~exists
      THEN { [ok |-> FALSE, text |-> None, error |-> "FileNotFound", called |-> FALSE] }
    ELSE IF size > MAX_FILE_SIZE_BYTES
      THEN { [ok |-> FALSE, text |-> None, error |-> "FileTooLarge", called |-> FALSE] }
    ELSE { [ok |-> FALSE, text |-> None, error |-> "ApiKeyMissing", called |-> FALSE],
           [ok |-> FALSE, text |-> None, error |-> "ApiError", called |-> TRUE] }
         \cup { [ok |-> TRUE, text |-> t, error |-> None, called |-> TRUE] : t \in Texts }

\* RecordingStateChanged, with the command and the episode that emitted it
UiEvent(ev, arg, path) ==
    [ev |-> ev, arg |-> arg, path |-> path,
     seq |-> Len(recv_cmds), ep |-> handling.ep, by |-> handling.handler]

\* T.emit(&self.app_handle)
Emit(ev, arg, path) == log' = Append(log, UiEvent(ev, arg, path))

\* the handler returns Err
Fail == handling' = [handling EXCEPT !.failed = TRUE]

\* a producer sends a command with blocking_send: the keyboard listener
\* (StartRecording, StopRecording, LockRecording) or the UI commands
\* stop_recording, cancel_recording, retry_transcription
Send(command) ==
    /\ Len(sent_cmds) < MaxCommands
    /\ Len(chan) < ChanCap
    /\ chan' = Append(chan, command)
    /\ sent_cmds' = Append(sent_cmds, command)
    /\ UNCHANGED <<sm_vars, aux_vars, kl_vars, recv_cmds, ctl_vars>>

\* dismiss_error, on the UI thread
dismiss_error ==
    /\ IF last_recording.audio_file_path /= NoPath
         THEN /\ files' = RemoveFile(files, last_recording.audio_file_path)
              /\ last_recording' = [last_recording EXCEPT !.audio_file_path = NoPath]
         ELSE UNCHANGED <<files, last_recording>>
    /\ UNCHANGED <<sm_vars, aux_vars, kl_vars, chan_vars, state, shared_state, pc, current_recording,
                   recording, next_file, episode, handling, job, tr, log,
                   pasted, backend_calls>>

\* the command blocking_recv returns from the channel
Dequeue(q) == Head(q)

\* what is left in the channel after blocking_recv
Rest(q) == Tail(q)

\* Dispatch that lets StopRecording end a locked recording
Dispatch_stop_locked(command) ==
    LET h(name, ep) == [cmd |-> command, handler |-> name, from |-> state,
                        ep |-> ep, file |-> current_recording.file,
                        failed |-> FALSE]
        sess == current_recording.ep
    IN
    CASE command = "StartRecording" /\ state = "Ready" ->
           /\ set_state("Recording")
           /\ episode' = episode + 1
           /\ handling' = h("start", episode + 1)
           /\ pc' = "start_emit"
           /\ UNCHANGED <<current_recording, recording>>
      [] (command = "StartRecording" /\ state = "RecordingLocked")
         \/ (command = "StopRecording" /\ state \in {"Recording", "RecordingLocked"}) ->
           /\ handling' = h("stop", sess)
           /\ recording' = current_recording
           /\ current_recording' = NoRecording
           /\ pc' = IF current_recording /= NoRecording THEN "stop_session" ELSE "stop_return"
           /\ UNCHANGED <<state, shared_state, episode>>
      [] command = "LockRecording" /\ state = "Recording" ->
           /\ set_state("RecordingLocked")
           /\ handling' = h("lock", sess)
           /\ pc' = "idle"
           /\ UNCHANGED <<current_recording, recording, episode>>
      [] command = "Cancel" /\ state /= "Ready" ->
           /\ handling' = h("cancel", sess)
           /\ recording' = current_recording
           /\ current_recording' = NoRecording
           /\ pc' = IF current_recording /= NoRecording THEN "cancel_session" ELSE "cancel_return"
           /\ UNCHANGED <<state, shared_state, episode>>
      [] command = "RetryTranscription" ->
           /\ episode' = episode + 1
           /\ handling' = h("retry", episode + 1)
           /\ pc' = "retry_read"
           /\ UNCHANGED <<state, shared_state, current_recording, recording>>
      [] OTHER ->
           /\ handling' = h("ignored", sess)
           /\ pc' = "idle"
           /\ UNCHANGED <<state, shared_state, current_recording, recording, episode>>

\* the match of run() on the received command and self.state, up to the call
\* of the handler
Dispatch(command) ==
    LET h(name, ep) == [cmd |-> command, handler |-> name, from |-> state,
                        ep |-> ep, file |-> current_recording.file,
                        failed |-> FALSE]
        sess == current_recording.ep
    IN
    CASE command = "StartRecording" /\ state = "Ready" ->
           /\ set_state("Recording")
           /\ episode' = episode + 1
           /\ handling' = h("start", episode + 1)
           /\ pc' = "start_emit"
           /\ UNCHANGED <<current_recording, recording>>
      [] (command = "StartRecording" /\ state = "RecordingLocked")
         \/ (command = "StopRecording" /\ state = "Recording") ->
           /\ handling' = h("stop", sess)
           /\ recording' = current_recording
           /\ current_recording' = NoRecording
           /\ pc' = IF current_recording /= NoRecording THEN "stop_session" ELSE "stop_return"
           /\ UNCHANGED <<state, shared_state, episode>>
      [] command = "LockRecording" /\ state = "Recording" ->
           /\ set_state("RecordingLocked")
           /\ handling' = h("lock", sess)
           /\ pc' = "idle"
           /\ UNCHANGED <<current_recording, recording, episode>>
      [] command = "Cancel" /\ state /= "Ready" ->
           /\ handling' = h("cancel", sess)
           /\ recording' = current_recording
           /\ current_recording' = NoRecording
           /\ pc' = IF current_recording /= NoRecording THEN "cancel_session" ELSE "cancel_return"
           /\ UNCHANGED <<state, shared_state, episode>>
      [] command = "RetryTranscription" ->
           /\ episode' = episode + 1
           /\ handling' = h("retry", episode + 1)
           /\ pc' = "retry_read"
           /\ UNCHANGED <<state, shared_state, current_recording, recording>>
      [] OTHER ->
           /\ handling' = h("ignored", sess)
           /\ pc' = "idle"
           /\ UNCHANGED <<state, shared_state, current_recording, recording, episode>>

\* Recv that takes the next command while a handler is still running
Recv_eager ==
    /\ chan /= << >>
    /\ chan' = Rest(chan)
    /\ recv_cmds' = Append(recv_cmds, Dequeue(chan))
    /\ Dispatch(Dequeue(chan))
    /\ UNCHANGED <<sm_vars, aux_vars, kl_vars, sent_cmds, files, next_file, job, tr, last_recording,
                   log, pasted, backend_calls>>

\* run(): blocking_recv and the match on the command
Recv ==
    /\ pc = "idle"
    /\ chan /= << >>
    /\ chan' = Rest(chan)
    /\ recv_cmds' = Append(recv_cmds, Dequeue(chan))
    /\ Dispatch(Dequeue(chan))
    /\ UNCHANGED <<sm_vars, aux_vars, kl_vars, sent_cmds, files, next_file, job, tr, last_recording,
                   log, pasted, backend_calls>>

\* handle_start: emit Started
handle_start_emit ==
    /\ pc = "start_emit"
    /\ Emit("Started", None, NoPath)
    /\ pc' = "start_audio"
    /\ UNCHANGED <<sm_vars, aux_vars, kl_vars, chan_vars, state, shared_state, current_recording,
                   recording, files, next_file, episode, handling, job, tr,
                   last_recording, pasted, backend_calls>>

\* handle_start: audio_recorder.start, and the Error event when it fails;
\* run() keeps the session on Ok
handle_start_audio ==
    /\ pc = "start_audio"
    /\ \E r \in {"Ok", "NoInputDevice", "StreamError"} :
         IF r = "Ok"
           THEN /\ files' = CreateFile(files, next_file)
                /\ next_file' = next_file + 1
                /\ current_recording' = [file |-> next_file, ep |-> handling.ep]
                /\ pc' = "idle"
                /\ UNCHANGED <<log, handling>>
           ELSE /\ files' = IF r = "StreamError" THEN CreateFile(files, next_file)
                                                 ELSE files
                /\ next_file' = IF r = "StreamError" THEN next_file + 1 ELSE next_file
                /\ Emit("Error", "recording", NoPath)
                /\ Fail
                /\ pc' = "start_failed"
                /\ UNCHANGED current_recording
    /\ UNCHANGED <<sm_vars, aux_vars, kl_vars, chan_vars, state, shared_state, recording, episode,
                   job, tr, last_recording, pasted, backend_calls>>

\* run(): set_state(Ready) after handle_start returned Err
start_failed ==
    /\ pc = "start_failed"
    /\ set_state("Ready")
    /\ pc' = "idle"
    /\ UNCHANGED <<sm_vars, aux_vars, kl_vars, chan_vars, current_recording, recording, files,
                   next_file, episode, handling, job, tr, last_recording, log,
                   pasted, backend_calls>>

\* handle_stop: recording.stop()? and the Transcribing event
handle_stop_session ==
    /\ pc = "stop_session"
    /\ recording' = NoRecording
    /\ \/ /\ Fail
          /\ pc' = "stop_return"
          /\ UNCHANGED <<files, job, log>>
       \/ \E d \in RecordingDurations :
            /\ files' = WriteFile(files, recording.file, d.speech_duration_ms)
            /\ job' = [path |-> recording.file, duration_ms |-> d.duration_ms,
                       speech_duration_ms |-> d.speech_duration_ms,
                       ep |-> handling.ep]
            /\ Emit("Transcribing", None, NoPath)
            /\ pc' = "stop_transcribe"
            /\ UNCHANGED handling
    /\ UNCHANGED <<sm_vars, aux_vars, kl_vars, chan_vars, state, shared_state, current_recording,
                   next_file, episode, tr, last_recording, pasted, backend_calls>>

\* handle_retry_transcription: read LastRecording.audio_file_path and the
\* file's metadata, and emit Transcribing
handle_retry_read ==
    /\ pc = "retry_read"
    /\ LET path == last_recording.audio_file_path IN
       IF path = NoPath \/ path \notin DOMAIN files
         THEN /\ Fail
              /\ pc' = "idle"
              /\ UNCHANGED <<job, log>>
         ELSE /\ job' = [path |-> path,
                         duration_ms |-> EstimatedDuration(FileSize(files[path])),
                         speech_duration_ms |-> 0, ep |-> handling.ep]
              /\ Emit("Transcribing", None, NoPath)
              /\ pc' = "retry_transcribe"
              /\ UNCHANGED handling
    /\ UNCHANGED <<sm_vars, aux_vars, kl_vars, chan_vars, state, shared_state, current_recording,
                   recording, files, next_file, episode, tr, last_recording,
                   pasted, backend_calls>>

\* where a handler's return leads: run() sets Ready after handle_stop, and
\* does not touch the state after handle_retry_transcription
ReturnPc(h) == IF h = "stop" THEN "stop_return" ELSE "idle"

\* handle_stop / handle_retry_transcription: load the config store and call
\* transcribe_audio_sync
Transcribe(h) ==
    /\ pc = h \o "_transcribe"
    /\ \/ /\ Fail
          /\ pc' = ReturnPc(h)
          /\ UNCHANGED <<tr, backend_calls>>
       \/ \E r \in transcribe_audio_sync(job.path \in DOMAIN files,
                       IF job.path \in DOMAIN files THEN FileSize(files[job.path]) ELSE 0,
                       job.duration_ms) :
            /\ tr' = r
            /\ backend_calls' = IF r.called
                                  THEN Append(backend_calls,
                                         [seq |-> Len(recv_cmds), path |-> job.path])
                                  ELSE backend_calls
            /\ pc' = IF r.ok THEN h \o "_cleanup" ELSE h \o "_failed"
            /\ UNCHANGED handling
    /\ UNCHANGED <<sm_vars, aux_vars, kl_vars, chan_vars, state, shared_state, current_recording,
                   recording, files, next_file, episode, job, last_recording,
                   log, pasted>>

\* Cleanup that leaves the file on disk
Cleanup_keep(h) ==
    /\ pc = h \o "_cleanup"
    /\ pc' = h \o "_paste"
    /\ UNCHANGED <<sm_vars, aux_vars, kl_vars, chan_vars, state, shared_state, current_recording,
                   recording, files, next_file, episode, handling, job, tr,
                   last_recording, log, pasted, backend_calls>>

\* Ok(text): cleanup_recording_file
Cleanup(h) ==
    /\ pc = h \o "_cleanup"
    /\ files' = RemoveFile(files, job.path)
    /\ pc' = h \o "_paste"
    /\ UNCHANGED <<sm_vars, aux_vars, kl_vars, chan_vars, state, shared_state, current_recording,
                   recording, next_file, episode, handling, job, tr,
                   last_recording, log, pasted, backend_calls>>

\* Paste that leaves LastRecording.audio_file_path as it was
Paste_keep_path(h) ==
    /\ pc = h \o "_paste"
    /\ \/ /\ tr.text /= ""
          /\ Fail
          /\ pc' = ReturnPc(h)
          /\ UNCHANGED <<pasted, last_recording>>
       \/ /\ pasted' = IF tr.text /= ""
                         THEN Append(pasted, [seq |-> Len(recv_cmds), text |-> tr.text])
                         ELSE pasted
          /\ last_recording' = [last_recording EXCEPT !.text = tr.text,
                                                      !.timestamp = "Some"]
          /\ pc' = h \o "_emit_stopped"
          /\ UNCHANGED handling
    /\ UNCHANGED <<sm_vars, aux_vars, kl_vars, chan_vars, state, shared_state, current_recording,
                   recording, files, next_file, episode, job, tr, log,
                   backend_calls>>

\* Ok(text): auto_paste_text_cgevent(&text)? when the text is not empty, then
\* the update of LastRecording
Paste(h) ==
    /\ pc = h \o "_paste"
    /\ \/ /\ tr.text /= ""
          /\ Fail
          /\ pc' = ReturnPc(h)
          /\ UNCHANGED <<pasted, last_recording>>
       \/ /\ pasted' = IF tr.text /= ""
                         THEN Append(pasted, [seq |-> Len(recv_cmds), text |-> tr.text])
                         ELSE pasted
          /\ last_recording' = [text |-> tr.text, timestamp |-> "Some",
                                audio_file_path |-> NoPath]
          /\ pc' = h \o "_emit_stopped"
          /\ UNCHANGED handling
    /\ UNCHANGED <<sm_vars, aux_vars, kl_vars, chan_vars, state, shared_state, current_recording,
                   recording, files, next_file, episode, job, tr, log,
                   backend_calls>>

\* Ok(text): emit Stopped{text}
EmitStopped(h) ==
    /\ pc = h \o "_emit_stopped"
    /\ Emit("Stopped", tr.text, NoPath)
    /\ pc' = ReturnPc(h)
    /\ UNCHANGED <<sm_vars, aux_vars, kl_vars, chan_vars, state, shared_state, current_recording,
                   recording, files, next_file, episode, handling, job, tr,
                   last_recording, pasted, backend_calls>>

\* Failed that falls through to the success path instead of returning Err
Failed_fallthrough(h) ==
    /\ pc = h \o "_failed"
    /\ last_recording' = [text |-> None, timestamp |-> None,
                          audio_file_path |-> job.path]
    /\ Emit("Error", "transcription", job.path)
    /\ Fail
    /\ pc' = h \o "_emit_stopped"
    /\ UNCHANGED <<sm_vars, aux_vars, kl_vars, chan_vars, state, shared_state, current_recording,
                   recording, files, next_file, episode, job, tr, pasted,
                   backend_calls>>

\* Err(e): keep the file for retry in LastRecording and emit Error
Failed(h) ==
    /\ pc = h \o "_failed"
    /\ last_recording' = [text |-> None, timestamp |-> None,
                          audio_file_path |-> job.path]
    /\ Emit("Error", "transcription", job.path)
    /\ Fail
    /\ pc' = ReturnPc(h)
    /\ UNCHANGED <<sm_vars, aux_vars, kl_vars, chan_vars, state, shared_state, current_recording,
                   recording, files, next_file, episode, job, tr, pasted,
                   backend_calls>>

\* run(): set_state(Ready) after handle_stop, whatever it returned
stop_return ==
    /\ pc = "stop_return"
    /\ set_state("Ready")
    /\ pc' = "idle"
    /\ UNCHANGED <<sm_vars, aux_vars, kl_vars, chan_vars, current_recording, recording, files,
                   next_file, episode, handling, job, tr, last_recording, log,
                   pasted, backend_calls>>

\* handle_cancel that does not clean up the cancelled recording's file
handle_cancel_keep_file ==
    /\ pc = "cancel_session"
    /\ recording' = NoRecording
    /\ \/ /\ Fail
          /\ UNCHANGED <<files, log>>
       \/ /\ files' = files
          /\ Emit("Cancelled", None, NoPath)
          /\ UNCHANGED handling
    /\ pc' = "cancel_return"
    /\ UNCHANGED <<sm_vars, aux_vars, kl_vars, chan_vars, state, shared_state, current_recording,
                   next_file, episode, job, tr, last_recording, pasted,
                   backend_calls>>

\* handle_cancel: recording.stop()?, cleanup_recording_file, emit Cancelled
handle_cancel ==
    /\ pc = "cancel_session"
    /\ recording' = NoRecording
    /\ \/ /\ Fail
          /\ UNCHANGED <<files, log>>
       \/ /\ files' = RemoveFile(files, recording.file)
          /\ Emit("Cancelled", None, NoPath)
          /\ UNCHANGED handling
    /\ pc' = "cancel_return"
    /\ UNCHANGED <<sm_vars, aux_vars, kl_vars, chan_vars, state, shared_state, current_recording,
                   next_file, episode, job, tr, last_recording, pasted,
                   backend_calls>>

\* run(): set_state(Ready) after handle_cancel, whatever it returned
cancel_return ==
    /\ pc = "cancel_return"
    /\ set_state("Ready")
    /\ pc' = "idle"
    /\ UNCHANGED <<sm_vars, aux_vars, kl_vars, chan_vars, current_recording, recording, files,
                   next_file, episode, handling, job, tr, last_recording, log,
                   pasted, backend_calls>>

\* ------------------------------------------------------------------------
\* The KeyListener (keyboard_listener.rs), the mode updates and the UI
\* commands (commands/recording.rs)
\* ------------------------------------------------------------------------
\* Shortcut::matches without the comparison of the counts
matches_all_pressed(keys, pressed_set) ==
    \A i \in 1..Len(keys) : keys[i] \in pressed_set

\* Shortcut::matches: keys is the Vec of keycodes of the shortcut; same count
\* and every key of the shortcut pressed
matches(keys, pressed_set) ==
    /\ Len(keys) = Cardinality(pressed_set)
    /\ \A i \in 1..Len(keys) : keys[i] \in pressed_set

\* sync_mode that takes one pending mode update instead of draining them all
sync_mode_once(m, q, pressed) ==
    IF q = << >>
      THEN [mode |-> m, pressed_keys |-> pressed, mode_rx |-> q]
      ELSE [mode |-> Head(q), pressed_keys |-> {}, mode_rx |-> Tail(q)]

\* KeyListener::sync_mode: while try_recv yields a mode, take it and clear
\* pressed_keys
RECURSIVE sync_mode(_, _, _)
sync_mode(m, q, pressed) ==
    IF q = << >>
      THEN [mode |-> m, pressed_keys |-> pressed, mode_rx |-> q]
      ELSE sync_mode(Head(q), Tail(q), {})

\* RecordingStateManager::is_recording_locked, as the listener reads it: the
\* recording state published by the Controller is RecordingLocked
is_recording_locked == shared_state = StateValue("RecordingLocked")

\* the commands of a push-to-record rising edge
PushToRecordCommands(locked) ==
    IF locked THEN <<"StopRecording">> ELSE <<"StartRecording">>

\* the commands of a hands-free rising edge
HandsFreeCommands(locked) ==
    IF locked THEN <<"StopRecording">> ELSE <<"StartRecording", "LockRecording">>

\* the Controller is idle in Ready and no command is on its way
QuietReady == state = "Ready" /\ pc = "idle" /\ chan = << >>

\* the key event the callback begins to process, after sync_mode
KeyEvent(type, key, s) ==
    [NoKeyEvent EXCEPT !.type = type, !.key = key, !.mode = s.mode,
                       !.drained = Len(mode_rx),
                       !.pressed_at_start = s.pressed_keys]

\* handle_capture_mode that lets key releases through
handle_capture_mode_pass_release(type, key, s) ==
    /\ pressed_keys' = s.pressed_keys
    /\ kl_ev' = [KeyEvent(type, key, s) EXCEPT
                   !.ui = IF type = "press" THEN "KeyDown" ELSE "KeyUp",
                   !.suppressed = (type = "press")]
    /\ kl_pc' = "wait"
    /\ kl_out' = << >>
    /\ UNCHANGED <<armed, quiet>>

\* KeyListener::handle_capture_mode: emit KeyDown / KeyUp and swallow the event
handle_capture_mode(type, key, s) ==
    /\ pressed_keys' = s.pressed_keys
    /\ kl_ev' = [KeyEvent(type, key, s) EXCEPT
                   !.ui = IF type = "press" THEN "KeyDown" ELSE "KeyUp",
                   !.suppressed = TRUE]
    /\ kl_pc' = "wait"
    /\ kl_out' = << >>
    /\ UNCHANGED <<armed, quiet>>

\* handle_normal_mode, KeyPress: the edge detection, and the read of the
\* recording state of the first rising edge
handle_normal_mode_press(key, s) ==
    LET shortcuts == s.mode.shortcuts
        was_push_to_record == matches(shortcuts.push_to_record, s.pressed_keys)
        was_hands_free == matches(shortcuts.hands_free, s.pressed_keys)
        after == s.pressed_keys \cup {key}
        rose_push == ~was_push_to_record /\ matches(shortcuts.push_to_record, after)
        rose_hf == ~was_hands_free /\ matches(shortcuts.hands_free, after)
        ev == [KeyEvent("press", key, s) EXCEPT
                 !.was_push = was_push_to_record,
                 !.is_push = matches(shortcuts.push_to_record, after),
                 !.was_hf = was_hands_free,
                 !.is_hf = matches(shortcuts.hands_free, after),
                 !.rose_push = rose_push,
                 !.rose_hf = rose_hf,
                 !.suppressed = \/ (rose_hf /\ \E i \in 1..Len(shortcuts.hands_free) :
                                                shortcuts.hands_free[i] = SPACE_KEYCODE)
                                \/ matches(shortcuts.push_to_record, after)]
    IN
    /\ pressed_keys' = after
    /\ IF rose_push
         THEN /\ kl_out' = PushToRecordCommands(is_recording_locked)
              /\ kl_pc' = "push_send"
              /\ kl_ev' = [ev EXCEPT !.push_read = state, !.done = FALSE]
              /\ armed' = FALSE
              /\ quiet' = FALSE
         ELSE IF rose_hf
           THEN /\ kl_out' = HandsFreeCommands(is_recording_locked)
                /\ kl_pc' = "hf_send"
                /\ kl_ev' = [ev EXCEPT !.hf_read = state, !.done = FALSE]
                /\ armed' = ~is_recording_locked
                /\ quiet' = (~is_recording_locked /\ QuietReady)
           ELSE /\ kl_out' = << >>
                /\ kl_pc' = "wait"
                /\ kl_ev' = ev
                /\ armed' = FALSE
                /\ quiet' = FALSE

\* handle_normal_mode, KeyRelease: push-to-record checked before the key is
\* removed; StopRecording unless the recording is locked
handle_normal_mode_release(key, s) ==
    LET shortcuts == s.mode.shortcuts
        was_push_to_record == matches(shortcuts.push_to_record, s.pressed_keys)
        after == s.pressed_keys \ {key}
        ev == [KeyEvent("release", key, s) EXCEPT
                 !.was_push = was_push_to_record,
                 !.is_push = matches(shortcuts.push_to_record, after),
                 !.was_hf = matches(shortcuts.hands_free, s.pressed_keys),
                 !.is_hf = matches(shortcuts.hands_free, after),
                 !.fell_push = was_push_to_record,
                 !.release_read = IF was_push_to_record THEN state ELSE "None"]
    IN
    /\ pressed_keys' = after
    /\ IF was_push_to_record /\ ~is_recording_locked
         THEN /\ kl_out' = <<"StopRecording">>
              /\ kl_pc' = "release_send"
              /\ kl_ev' = [ev EXCEPT !.done = FALSE]
         ELSE /\ kl_out' = << >>
              /\ kl_pc' = "wait"
              /\ kl_ev' = ev
    /\ UNCHANGED <<armed, quiet>>

\* the grab callback on a key press: sync_mode, then the handler of the mode
KeyPress(key) ==
    /\ kl_pc = "wait"
    /\ n_keys < MaxKeyEvents
    /\ n_keys' = n_keys + 1
    /\ down' = down \cup {key}
    /\ LET s == sync_mode(mode, mode_rx, pressed_keys) IN
       /\ mode' = s.mode
       /\ mode_rx' = s.mode_rx
       /\ IF s.mode.kind = "Capture"
            THEN handle_capture_mode("press", key, s)
            ELSE handle_normal_mode_press(key, s)
    /\ swallowed' = IF kl_ev'.suppressed THEN swallowed \cup {key}
                                        ELSE swallowed \ {key}
    /\ UNCHANGED <<sm_vars, aux_vars, chan_vars, ctl_vars, n_modes, n_ui, last_sent_mode,
                   senders>>

\* the grab callback on the release of a key that is held down
KeyRelease(key) ==
    /\ kl_pc = "wait"
    /\ n_keys < MaxKeyEvents
    /\ key \in down
    /\ n_keys' = n_keys + 1
    /\ down' = down \ {key}
    /\ LET s == sync_mode(mode, mode_rx, pressed_keys) IN
       /\ mode' = s.mode
       /\ mode_rx' = s.mode_rx
       /\ IF s.mode.kind = "Capture"
            THEN handle_capture_mode("release", key, s)
            ELSE handle_normal_mode_release(key, s)
    /\ swallowed' = swallowed \ {key}
    /\ UNCHANGED <<sm_vars, aux_vars, chan_vars, ctl_vars, n_modes, n_ui, last_sent_mode,
                   senders>>

\* which edge of the callback sends the command
SenderOf(command) ==
    CASE kl_pc = "push_send" -> "push"
      [] kl_pc = "release_send" -> "release"
      [] kl_pc = "hf_send" /\ command = "StartRecording" -> "hf_start"
      [] kl_pc = "hf_send" /\ command = "LockRecording" -> "hf_lock"
      [] OTHER -> "hf_stop"

\* command_tx.blocking_send of the next command of the callback
blocking_send ==
    /\ kl_pc \in {"push_send", "hf_send", "release_send"}
    /\ kl_out /= << >>
    /\ Len(chan) < ChanCap
    /\ chan' = Append(chan, Head(kl_out))
    /\ sent_cmds' = Append(sent_cmds, Head(kl_out))
    /\ senders' = Append(senders, [by |-> SenderOf(Head(kl_out)), armed |-> armed,
                                   ev |-> n_keys])
    /\ kl_out' = Tail(kl_out)
    /\ kl_ev' = [kl_ev EXCEPT
                   !.sent = Append(@, [cmd |-> Head(kl_out), by |-> SenderOf(Head(kl_out))]),
                   !.done = (Tail(kl_out) = << >> /\ kl_pc /= "push_send")]
    /\ kl_pc' = IF Tail(kl_out) /= << >> THEN kl_pc
                ELSE IF kl_pc = "push_send" THEN "hf_edge" ELSE "wait"
    /\ UNCHANGED <<sm_vars, aux_vars, recv_cmds, ctl_vars, mode, mode_rx, pressed_keys,
                   down, swallowed,
                   n_keys, n_modes, n_ui, last_sent_mode, armed, quiet>>

\* handle_normal_mode, KeyPress, after the push-to-record edge: the hands-free
\* rising edge and its read of the recording state
hands_free_edge ==
    /\ kl_pc = "hf_edge"
    /\ IF kl_ev.rose_hf
         THEN /\ kl_out' = HandsFreeCommands(is_recording_locked)
              /\ kl_pc' = "hf_send"
              /\ kl_ev' = [kl_ev EXCEPT !.hf_read = state]
              /\ armed' = ~is_recording_locked
              /\ quiet' = FALSE
         ELSE /\ kl_out' = << >>
              /\ kl_pc' = "wait"
              /\ kl_ev' = [kl_ev EXCEPT !.done = TRUE]
              /\ UNCHANGED <<armed, quiet>>
    /\ UNCHANGED <<sm_vars, aux_vars, chan_vars, ctl_vars, mode, mode_rx, pressed_keys,
                   down, swallowed,
                   n_keys, n_modes, n_ui, last_sent_mode, senders>>

\* mode_tx.blocking_send(new_mode)
SendMode(new_mode) ==
    /\ n_modes < MaxModeUpdates
    /\ Len(mode_rx) < MODE_CHANNEL_CAPACITY
    /\ n_modes' = n_modes + 1
    /\ mode_rx' = Append(mode_rx, new_mode)
    /\ last_sent_mode' = new_mode
    /\ UNCHANGED <<sm_vars, aux_vars, chan_vars, ctl_vars, mode, pressed_keys, down,
                   swallowed, kl_pc,
                   kl_out, kl_ev, n_keys, n_ui, senders, armed, quiet>>

\* KeyListener::enter_capture_mode
enter_capture_mode == SendMode(CaptureMode)

\* KeyListener::exit_capture_mode
exit_capture_mode(shortcuts) == SendMode(NormalMode(shortcuts))

\* KeyListener::update_shortcuts
update_shortcuts(new_config) == SendMode(NormalMode(new_config))

\* a UI command sends a RecordingCommand with blocking_send
UiSend(command) ==
    /\ n_ui < MaxUiCommands
    /\ Len(chan) < ChanCap
    /\ n_ui' = n_ui + 1
    /\ chan' = Append(chan, command)
    /\ sent_cmds' = Append(sent_cmds, command)
    /\ senders' = Append(senders, [by |-> "ui", armed |-> armed, ev |-> n_keys])
    /\ armed' = IF command \in {"StopRecording", "Cancel"} THEN FALSE ELSE armed
    /\ quiet' = IF command \in {"StopRecording", "Cancel"} THEN FALSE ELSE quiet
    /\ UNCHANGED <<sm_vars, aux_vars, recv_cmds, ctl_vars, mode, mode_rx, pressed_keys,
                   down, swallowed,
                   kl_pc, kl_out, kl_ev, n_keys, n_modes, last_sent_mode>>

\* the commands stop_recording, cancel_recording and retry_transcription
stop_recording == UiSend("StopRecording")

cancel_recording == UiSend("Cancel")

retry_transcription == UiSend("RetryTranscription")

Init ==
    /\ sm_state = "Ready"
    /\ sm_hist = << >>
    /\ CtlInit
    /\ KlInit(DefaultShortcuts)
    /\ AuxInit

Next ==
    \/ \E command \in RecordingCommand : Send(command)
    \/ dismiss_error
    \/ Recv
    \/ handle_start_emit
    \/ handle_start_audio
    \/ start_failed
    \/ handle_stop_session
    \/ handle_retry_read
    \/ \E h \in {"stop", "retry"} : Transcribe(h)
    \/ \E h \in {"stop", "retry"} : Cleanup(h)
    \/ \E h \in {"stop", "retry"} : Paste(h)
    \/ \E h \in {"stop", "retry"} : EmitStopped(h)
    \/ \E h \in {"stop", "retry"} : Failed(h)
    \/ stop_return
    \/ handle_cancel
    \/ cancel_return

Spec == Init /\ [][Next]_vars

\* the steps of the Controller thread on StartRecording, StopRecording and
\* LockRecording
SessionStep ==
    \/ Recv
    \/ handle_start_emit
    \/ handle_start_audio
    \/ start_failed
    \/ handle_stop_session
    \/ Transcribe("stop")
    \/ Cleanup("stop")
    \/ Paste("stop")
    \/ EmitStopped("stop")
    \/ Failed("stop")
    \/ stop_return

\* the steps of the Controller thread on Cancel and RetryTranscription
CancelRetryStep ==
    \/ handle_cancel
    \/ cancel_return
    \/ handle_retry_read
    \/ Transcribe("retry")
    \/ Cleanup("retry")
    \/ Paste("retry")
    \/ EmitStopped("retry")
    \/ Failed("retry")

\* the steps of the KeyListener thread after a key event arrived
ListenerStep ==
    \/ blocking_send
    \/ hands_free_edge

\* the KeyListener with the default shortcuts next to the Controller: key
\* events only
NextKeys ==
    \/ \E key \in Keys : KeyPress(key)
    \/ \E key \in Keys : KeyRelease(key)
    \/ ListenerStep
    \/ SessionStep

SpecKeys == Init /\ [][NextKeys]_vars

\* the KeyListener started with one of the configs
InitKL ==
    /\ sm_state = "Ready"
    /\ sm_hist = << >>
    /\ CtlInit
    /\ \E initial_config \in ShortcutConfigs : KlInit(initial_config)
    /\ AuxInit

\* the KeyListener next to the UI commands and the Controller
NextUI ==
    \/ \E key \in Keys : n_keys < MaxKeyEventsUI /\ KeyPress(key)
    \/ \E key \in Keys : n_keys < MaxKeyEventsUI /\ KeyRelease(key)
    \/ ListenerStep
    \/ stop_recording
    \/ cancel_recording
    \/ retry_transcription
    \/ SessionStep
    \/ CancelRetryStep

SpecUI == InitKL /\ [][NextUI]_vars

\* the KeyListener next to the mode updates and the Controller
NextModes ==
    \/ \E key \in Keys : n_keys < MaxKeyEventsModes /\ KeyPress(key)
    \/ \E key \in Keys : n_keys < MaxKeyEventsModes /\ KeyRelease(key)
    \/ ListenerStep
    \/ enter_capture_mode
    \/ \E shortcuts \in ShortcutConfigs : exit_capture_mode(shortcuts)
    \/ \E new_config \in ShortcutConfigs : update_shortcuts(new_config)
    \/ SessionStep

SpecModes == InitKL /\ [][NextModes]_vars

\* ------------------------------------------------------------------------
\* Shortcut operations (config.rs) and the shortcut commands
\* (commands/preferences/shortcuts.rs)
\* ------------------------------------------------------------------------
RECURSIVE validate_seen(_, _, _)
\* Shortcut::validate, the duplicate check: the loop over keys with the set
\* of keycodes seen so far
validate_seen(keys, i, seen) ==
    IF i > Len(keys) THEN "Ok"
    ELSE IF keys[i] \in seen THEN "Duplicate key"
    ELSE validate_seen(keys, i + 1, seen \cup {keys[i]})

\* Shortcut::validate without the upper limit on the number of keys
validate_no_max(keys) ==
    IF Len(keys) = 0
      THEN "Shortcut must have 1-3 keys"
      ELSE validate_seen(keys, 1, {})

\* Shortcut::validate: "Ok" or the error
validate(keys) ==
    IF Len(keys) = 0 \/ Len(keys) > 3
      THEN "Shortcut must have 1-3 keys"
      ELSE validate_seen(keys, 1, {})

\* KeyListener::uses_fn_key
uses_fn_key(config) ==
    \/ \E i \in 1..Len(config.push_to_record) : config.push_to_record[i] = FN_KEYCODE
    \/ \E i \in 1..Len(config.hands_free) : config.hands_free[i] = FN_KEYCODE

\* config_store.get(&ConfigKey::SHORTCUTS).unwrap_or_default()
load_shortcuts_config ==
    IF config_store.present THEN config_store.value ELSE DefaultShortcuts

\* the record of a save_shortcuts_config call
SaveCall(config, push_valid, hf_valid, stored, sent, result, globe) ==
    [op |-> "save", config |-> config, push_validate |-> push_valid,
     hands_free_validate |-> hf_valid, stored |-> stored, sent |-> sent,
     result |-> result, globe_key_fix |-> globe]

\* save_shortcuts_config: validate both shortcuts, store the configuration
\* (store.set then store.save, which may fail), send it to the KeyListener,
\* fix the globe key when Fn comes into use
save_shortcuts_config(config) ==
    LET push_valid == validate(config.push_to_record)
        hf_valid == validate(config.hands_free)
    IN
    /\ IF push_valid /= "Ok"
         THEN /\ sc_call' = SaveCall(config, push_valid, "not called", FALSE, FALSE,
                                     push_valid, FALSE)
              /\ UNCHANGED <<config_store, mode_rx, n_modes, last_sent_mode>>
         ELSE IF hf_valid /= "Ok"
           THEN /\ sc_call' = SaveCall(config, push_valid, hf_valid, FALSE, FALSE,
                                       hf_valid, FALSE)
                /\ UNCHANGED <<config_store, mode_rx, n_modes, last_sent_mode>>
           ELSE /\ config_store' = [present |-> TRUE, value |-> config]
                /\ \/ /\ sc_call' = SaveCall(config, push_valid, hf_valid, TRUE, FALSE,
                                             "store.save failed", FALSE)
                      /\ UNCHANGED <<mode_rx, n_modes, last_sent_mode>>
                   \/ /\ n_modes < MaxModeUpdates
                      /\ Len(mode_rx) < MODE_CHANNEL_CAPACITY
                      /\ mode_rx' = Append(mode_rx, NormalMode(config))
                      /\ n_modes' = n_modes + 1
                      /\ last_sent_mode' = NormalMode(config)
                      /\ sc_call' = SaveCall(config, push_valid, hf_valid, TRUE, TRUE,
                                             "Ok",
                                             ~uses_fn_key(load_shortcuts_config)
                                               /\ uses_fn_key(config))
    /\ UNCHANGED <<sm_vars, chan_vars, ctl_vars, mode, pressed_keys, down,
                   swallowed, kl_pc, kl_out, kl_ev, n_keys, n_ui, senders, armed,
                   quiet, sc_in, vad_vars, ml_vars, rest_vars>>

\* reset_shortcuts_config: store the defaults and send them to the KeyListener
reset_shortcuts_config ==
    /\ config_store' = [present |-> TRUE, value |-> DefaultShortcuts]
    /\ \/ /\ sc_call' = [op |-> "reset", sent |-> FALSE]
          /\ UNCHANGED <<mode_rx, n_modes, last_sent_mode>>
       \/ /\ n_modes < MaxModeUpdates
          /\ Len(mode_rx) < MODE_CHANNEL_CAPACITY
          /\ mode_rx' = Append(mode_rx, NormalMode(DefaultShortcuts))
          /\ n_modes' = n_modes + 1
          /\ last_sent_mode' = NormalMode(DefaultShortcuts)
          /\ sc_call' = [op |-> "reset", sent |-> TRUE]
    /\ UNCHANGED <<sm_vars, chan_vars, ctl_vars, mode, pressed_keys, down,
                   swallowed, kl_pc, kl_out, kl_ev, n_keys, n_ui, senders, armed,
                   quiet, sc_in, vad_vars, ml_vars, rest_vars>>

\* Shortcut::matches applied to the shortcut and the pressed keys drawn
ApplyMatches ==
    /\ sc_call' = [op |-> "matches", keys |-> sc_in.keys,
                   pressed_keys |-> sc_in.pressed_keys,
                   result |-> matches(sc_in.keys, sc_in.pressed_keys)]
    /\ UNCHANGED <<sm_vars, chan_vars, ctl_vars, kl_vars, config_store, sc_in,
                   vad_vars, ml_vars, rest_vars>>

\* Shortcut::validate applied to the shortcut drawn
ApplyValidate ==
    /\ sc_call' = [op |-> "validate", keys |-> sc_in.keys,
                   result |-> validate(sc_in.keys)]
    /\ UNCHANGED <<sm_vars, chan_vars, ctl_vars, kl_vars, config_store, sc_in,
                   vad_vars, ml_vars, rest_vars>>

\* every Shortcut of up to MaxKeysLen keys with every set of pressed keys
InitShortcut ==
    /\ sm_state = "Ready"
    /\ sm_hist = << >>
    /\ CtlInit
    /\ KlInit(DefaultShortcuts)
    /\ VadInit(TRUE, << >>, 0)
    /\ MlInit
    /\ RestInit
    /\ config_store = NoStoredConfig
    /\ sc_call = NoShortcutCall
    /\ \E keys \in Shortcuts, pressed_set \in SUBSET KeyCodes :
         sc_in = [keys |-> keys, pressed_keys |-> pressed_set,
                  config |-> NoShortcuts]

NextShortcut ==
    \/ ApplyMatches
    \/ ApplyValidate

SpecShortcut == InitShortcut /\ [][NextShortcut]_vars

\* shortcuts paired with every Shortcut in the configurations saved
SampleShortcuts ==
    { << >>, <<FN_KEYCODE>>, <<FN_KEYCODE, SPACE_KEYCODE>>,
      <<SPACE_KEYCODE, SPACE_KEYCODE>> }

\* the ShortcutsConfig values given to save_shortcuts_config: every Shortcut
\* as push_to_record or as hands_free, next to one of the samples
SavedConfigs ==
    { [push_to_record |-> a, hands_free |-> b] :
        a \in Shortcuts, b \in SampleShortcuts }
    \cup
    { [push_to_record |-> a, hands_free |-> b] :
        a \in SampleShortcuts, b \in Shortcuts }

\* every such configuration, on a config store without a shortcuts entry or
\* with shortcuts that do not use Fn
InitSave ==
    /\ sm_state = "Ready"
    /\ sm_hist = << >>
    /\ CtlInit
    /\ KlInit(DefaultShortcuts)
    /\ VadInit(TRUE, << >>, 0)
    /\ MlInit
    /\ RestInit
    /\ config_store \in { NoStoredConfig,
                          [present |-> TRUE,
                           value |-> [push_to_record |-> <<SPACE_KEYCODE>>,
                                      hands_free |-> <<SPACE_KEYCODE, 0>>]] }
    /\ sc_call = NoShortcutCall
    /\ \E config \in SavedConfigs :
         sc_in = [keys |-> << >>, pressed_keys |-> {}, config |-> config]

NextSave ==
    \/ save_shortcuts_config(sc_in.config)
    \/ reset_shortcuts_config

SpecSave == InitSave /\ [][NextSave]_vars

\* ------------------------------------------------------------------------
\* VAD (recording/vad.rs) and the VAD framing of the audio callback
\* (recording/audio_recorder.rs)
\* ------------------------------------------------------------------------
\* the answers of the inner detector: speech probability above the
\* threshold, not above it, or a compute error
InnerResults == {"voice", "noise", "error"}

\* the sizes of the mono chunks the resampler hands to the VAD framing
ChunkSizes == {200, 512, 700}

\* the samples first..last of the input, each named by its position
Samples(first, last) == [i \in 1..(last - first + 1) |-> first + i - 1]

RECURSIVE Concat(_)
\* the samples of a queue of frames, in order
Concat(frames) ==
    IF frames = << >> THEN << >> ELSE Head(frames) \o Concat(Tail(frames))

\* SileroVad::push_frame seen through is_voice: a frame that does not have
\* FRAME_SAMPLES samples is an error, otherwise the detector's answer
is_voice(frame, decision) ==
    IF Len(frame) /= FRAME_SAMPLES THEN "error" ELSE decision

\* SileroVad::calc_level as SileroVad::push_frame calls it, on the detector's
\* own state: the state tensor is taken out for the run and replaced by the
\* run's stateN, the context becomes the end of the frame; a run that fails
\* leaves the taken state behind
calc_level(silero, frame, decision) ==
    IF Len(frame) /= FRAME_SAMPLES THEN silero
    ELSE IF decision = "error" THEN [silero EXCEPT !.state = "taken"]
    ELSE [state |-> "stateN", context |-> frame[FRAME_SAMPLES]]

\* SmoothedVad::push_frame that starts speech on the first voiced frame
push_frame_no_onset(sv, frame, decision) ==
    LET buffered == Append(sv.frame_buffer, frame)
        frame_buffer == IF Len(buffered) > sv.prefill_frames + 1
                          THEN SubSeq(buffered, Len(buffered) - sv.prefill_frames,
                                      Len(buffered))
                          ELSE buffered
        s == [sv EXCEPT !.frame_buffer = frame_buffer,
                        !.inner_vad = calc_level(sv.inner_vad, frame, decision)]
        voice == is_voice(frame, decision)
    IN
    IF voice = "error"
      THEN [vad |-> s, out |-> [kind |-> "Err", samples |-> << >>]]
    ELSE IF ~s.in_speech /\ voice = "voice"
      THEN [vad |-> [s EXCEPT !.in_speech = TRUE,
                              !.hangover_counter = s.hangover_frames,
                              !.onset_counter = 0,
                              !.temp_out = Concat(frame_buffer)],
            out |-> [kind |-> "Speech", samples |-> Concat(frame_buffer)]]
    ELSE IF s.in_speech /\ voice = "voice"
      THEN [vad |-> [s EXCEPT !.hangover_counter = s.hangover_frames],
            out |-> [kind |-> "Speech", samples |-> frame]]
    ELSE IF s.in_speech
      THEN IF s.hangover_counter > 0
             THEN [vad |-> [s EXCEPT !.hangover_counter = @ - 1],
                   out |-> [kind |-> "Speech", samples |-> frame]]
             ELSE [vad |-> [s EXCEPT !.in_speech = FALSE],
                   out |-> [kind |-> "Noise", samples |-> << >>]]
    ELSE [vad |-> [s EXCEPT !.onset_counter = 0],
          out |-> [kind |-> "Noise", samples |-> << >>]]

\* SmoothedVad::push_frame: buffer the frame for the pre-roll, ask the inner
\* detector, then the four cases of (in_speech, is_voice)
push_frame(sv, frame, decision) ==
    LET buffered == Append(sv.frame_buffer, frame)
        frame_buffer == IF Len(buffered) > sv.prefill_frames + 1
                          THEN SubSeq(buffered, Len(buffered) - sv.prefill_frames,
                                      Len(buffered))
                          ELSE buffered
        s == [sv EXCEPT !.frame_buffer = frame_buffer,
                        !.inner_vad = calc_level(sv.inner_vad, frame, decision)]
        voice == is_voice(frame, decision)
    IN
    IF voice = "error"
      THEN [vad |-> s, out |-> [kind |-> "Err", samples |-> << >>]]
    ELSE IF ~s.in_speech /\ voice = "voice"
      THEN IF s.onset_counter + 1 >= s.onset_frames
             THEN [vad |-> [s EXCEPT !.in_speech = TRUE,
                                     !.hangover_counter = s.hangover_frames,
                                     !.onset_counter = 0,
                                     !.temp_out = Concat(frame_buffer)],
                   out |-> [kind |-> "Speech", samples |-> Concat(frame_buffer)]]
             ELSE [vad |-> [s EXCEPT !.onset_counter = @ + 1],
                   out |-> [kind |-> "Noise", samples |-> << >>]]
    ELSE IF s.in_speech /\ voice = "voice"
      THEN [vad |-> [s EXCEPT !.hangover_counter = s.hangover_frames],
            out |-> [kind |-> "Speech", samples |-> frame]]
    ELSE IF s.in_speech
      THEN IF s.hangover_counter > 0
             THEN [vad |-> [s EXCEPT !.hangover_counter = @ - 1],
                   out |-> [kind |-> "Speech", samples |-> frame]]
             ELSE [vad |-> [s EXCEPT !.in_speech = FALSE],
                   out |-> [kind |-> "Noise", samples |-> << >>]]
    ELSE [vad |-> [s EXCEPT !.onset_counter = 0],
          out |-> [kind |-> "Noise", samples |-> << >>]]

\* write_samples_to_wav that adds 1 to the counter for each call
write_samples_to_wav_count_calls(samples, st) ==
    LET failed == (st.n_writes + 1 = write_fail) IN
    [st EXCEPT !.n_writes = @ + 1,
               !.wav = IF failed THEN @ ELSE @ \o samples,
               !.speech_sample_count = @ + 1]

\* write_samples_to_wav: write_sample for each sample, its error dropped by
\* .ok(), then the counter goes up by samples.len()
write_samples_to_wav(samples, st) ==
    LET failed == (st.n_writes + 1 = write_fail) IN
    [st EXCEPT !.n_writes = @ + 1,
               !.wav = IF failed THEN @ ELSE @ \o samples,
               !.speech_sample_count = @ + Len(samples)]

\* the decision of the inner detector for the next frame pushed
NextDecision(st) ==
    IF Len(st.pushed) + 1 <= Len(inner) THEN inner[Len(st.pushed) + 1] ELSE "noise"

RECURSIVE drain_frames_keep_tail(_)
\* the framing loop that leaves the first samples of the accumulator behind
\* and takes the frame from its end
drain_frames_keep_tail(st) ==
    IF Len(st.vad_buffer) < FRAME_SAMPLES THEN st
    ELSE
      LET n == Len(st.vad_buffer)
          frame == SubSeq(st.vad_buffer, n - FRAME_SAMPLES + 1, n)
          r == push_frame(st.vad, frame, NextDecision(st))
          s1 == [st EXCEPT !.vad_buffer = SubSeq(@, 1, n - FRAME_SAMPLES),
                           !.vad = r.vad,
                           !.pushed = Append(@, frame),
                           !.emitted = Append(@, r.out)]
      IN
      drain_frames_keep_tail(
        CASE r.out.kind = "Speech" -> write_samples_to_wav(r.out.samples, s1)
          [] r.out.kind = "Err" -> write_samples_to_wav(frame, s1)
          [] OTHER -> s1)

RECURSIVE drain_frames(_)
\* process_through_vad_and_write, the loop: while the accumulator holds
\* FRAME_SAMPLES samples, drain a frame, push it to the VAD, write what it
\* returned as Speech; on a VAD error write the frame
drain_frames(st) ==
    IF Len(st.vad_buffer) < FRAME_SAMPLES THEN st
    ELSE
      LET frame == SubSeq(st.vad_buffer, 1, FRAME_SAMPLES)
          r == push_frame(st.vad, frame, NextDecision(st))
          s1 == [st EXCEPT !.vad_buffer = SubSeq(@, FRAME_SAMPLES + 1, Len(@)),
                           !.vad = r.vad,
                           !.pushed = Append(@, frame),
                           !.emitted = Append(@, r.out)]
      IN
      drain_frames(
        CASE r.out.kind = "Speech" -> write_samples_to_wav(r.out.samples, s1)
          [] r.out.kind = "Err" -> write_samples_to_wav(frame, s1)
          [] OTHER -> s1)

\* the state process_through_vad_and_write works on
VadState ==
    [vad_buffer |-> vad_buffer, vad |-> vad, pushed |-> pushed,
     emitted |-> emitted, wav |-> wav,
     speech_sample_count |-> speech_sample_count, n_writes |-> n_writes]

\* process_through_vad_and_write(mono_samples): without a VAD write
\* everything; with one, extend the accumulator and run the framing loop
process_through_vad_and_write(size) ==
    /\ ~recording_result.stopped
    /\ n_callbacks < MaxCallbacks
    /\ n_samples + size < (MaxFrames + 1) * FRAME_SAMPLES
    /\ n_callbacks' = n_callbacks + 1
    /\ n_samples' = n_samples + size
    /\ LET mono_samples == Samples(n_samples + 1, n_samples + size)
           st == IF vad_enabled
                   THEN drain_frames([VadState EXCEPT !.vad_buffer = @ \o mono_samples])
                   ELSE write_samples_to_wav(mono_samples, VadState)
       IN
       /\ vad_buffer' = st.vad_buffer
       /\ vad' = st.vad
       /\ pushed' = st.pushed
       /\ emitted' = st.emitted
       /\ wav' = st.wav
       /\ speech_sample_count' = st.speech_sample_count
       /\ n_writes' = st.n_writes
    /\ UNCHANGED <<sm_vars, chan_vars, ctl_vars, kl_vars, cfg_vars, ml_vars,
                   rest_vars,
                   vad_enabled,
                   inner, write_fail, recording_result>>

\* Recording::stop: the stream is dropped, the WAV finalized and the speech
\* duration computed from the counter
RecordingStop ==
    /\ ~recording_result.stopped
    /\ recording_result' =
         [stopped |-> TRUE,
          speech_duration_ms |-> (speech_sample_count * 1000) \div SAMPLE_RATE]
    /\ UNCHANGED <<sm_vars, chan_vars, ctl_vars, kl_vars, cfg_vars, ml_vars,
                   rest_vars,
                   vad_enabled,
                   vad, inner, vad_buffer, n_samples, n_callbacks, pushed,
                   emitted, wav, speech_sample_count, n_writes, write_fail>>

\* a recording with or without the VAD, every sequence of answers of the
\* inner detector for MaxFrames frames, and a write error at any one write
InitVad ==
    /\ sm_state = "Ready"
    /\ sm_hist = << >>
    /\ CtlInit
    /\ KlInit(DefaultShortcuts)
    /\ CfgInit
    /\ MlInit
    /\ RestInit
    /\ \E enabled \in BOOLEAN, decisions \in [1..MaxFrames -> InnerResults],
          failing_write \in 0..MaxFrames :
         VadInit(enabled, decisions, failing_write)

NextVad ==
    \/ \E size \in ChunkSizes : process_through_vad_and_write(size)
    \/ RecordingStop

SpecVad == InitVad /\ [][NextVad]_vars

\* the frame pushed as the k-th
FrameNo(k) == Samples((k - 1) * FRAME_SAMPLES + 1, k * FRAME_SAMPLES)

\* VoiceActivityDetector::push_frame called on a SmoothedVad with the next
\* frame
PushFrame ==
    /\ Len(pushed) < Len(inner)
    /\ LET frame == FrameNo(Len(pushed) + 1)
           r == push_frame(vad, frame, inner[Len(pushed) + 1])
       IN
       /\ vad' = r.vad
       /\ pushed' = Append(pushed, frame)
       /\ emitted' = Append(emitted, r.out)
    /\ UNCHANGED <<sm_vars, chan_vars, ctl_vars, kl_vars, cfg_vars, ml_vars,
                   rest_vars,
                   vad_enabled,
                   inner, vad_buffer, n_samples, n_callbacks, wav,
                   speech_sample_count, n_writes, write_fail, recording_result>>

\* a SmoothedVad with onset 2, hangover 3 and prefill 2 and every sequence
\* of voice / noise answers of the inner detector for MaxSmoothedFrames frames
InitSmoothed ==
    /\ sm_state = "Ready"
    /\ sm_hist = << >>
    /\ CtlInit
    /\ KlInit(DefaultShortcuts)
    /\ CfgInit
    /\ MlInit
    /\ RestInit
    /\ vad_enabled = TRUE
    /\ vad = SmoothedVad(2, 3, 2)
    /\ inner \in [1..MaxSmoothedFrames -> {"voice", "noise"}]
    /\ vad_buffer = << >>
    /\ n_samples = 0
    /\ n_callbacks = 0
    /\ pushed = << >>
    /\ emitted = << >>
    /\ wav = << >>
    /\ speech_sample_count = 0
    /\ n_writes = 0
    /\ write_fail = 0
    /\ recording_result = NoRecordingResult

SpecSmoothed == InitSmoothed /\ [][PushFrame]_vars

\* ------------------------------------------------------------------------
\* The model loader (models/loader.rs)
\* ------------------------------------------------------------------------
\* the operations threads call on the ModelLoader
LoaderOps ==
    {"load_model", "load_model_sync", "transcribe_with_model", "unload_model"}

\* the variables the ModelLoader does not touch
non_ml_vars ==
    <<sm_vars, chan_vars, ctl_vars, kl_vars, cfg_vars, vad_vars, rest_vars>>

\* ModelLoader::is_model_loaded
is_model_loaded(model_name) ==
    current_model.present /\ current_model.name = model_name

\* ModelLoadingStateChanged::{Started, Complete, Error}, with the number of
\* the call that emits it
ModelLoadingStateChanged(kind, t) ==
    [kind |-> kind, model_name |-> ml_call[t].name, call |-> ml_call[t].id]

\* the call of thread t returns result
Return(t, result) ==
    /\ ml_pc' = [ml_pc EXCEPT ![t] = "idle"]
    /\ ml_call' = [ml_call EXCEPT ![t].result = result]

\* thread t goes on with the step at
Goto(t, at) ==
    /\ ml_pc' = [ml_pc EXCEPT ![t] = at]
    /\ UNCHANGED ml_call

\* a thread with no call in progress calls load_model, load_model_sync or
\* transcribe_with_model for a model name
LoaderCall(t, op, model_name) ==
    /\ ml_pc[t] = "idle"
    /\ n_loader_calls < MaxLoaderCalls
    /\ n_loader_calls' = n_loader_calls + 1
    /\ ml_call' = [ml_call EXCEPT ![t] =
                     [op |-> op, name |-> model_name, id |-> n_loader_calls + 1,
                      client |-> "none", result |-> "none"]]
    /\ ml_pc' = [ml_pc EXCEPT ![t] =
                   IF op = "transcribe_with_model" THEN "needs_load"
                                                   ELSE "is_model_loaded"]
    /\ UNCHANGED <<non_ml_vars, current_model, loading, ml_events, ml_inferences>>

\* ModelLoader::unload_model called by a thread with no call in progress
unload_model(t) ==
    /\ ml_pc[t] = "idle"
    /\ n_loader_calls < MaxLoaderCalls
    /\ n_loader_calls' = n_loader_calls + 1
    /\ current_model' = NoModel
    /\ ml_call' = [ml_call EXCEPT ![t] =
                     [op |-> "unload_model", name |-> "none",
                      id |-> n_loader_calls + 1, client |-> "none",
                      result |-> "Ok"]]
    /\ UNCHANGED <<non_ml_vars, loading, ml_pc, ml_events, ml_inferences>>

\* ModelLoader::load_model, one step of thread t: each access to
\* current_model or loading under its own lock is a step, and so are the
\* emission of Started and the wait for the blocking task
load_model(t) ==
    /\ ml_call[t].op = "load_model"
    /\ \/ /\ ml_pc[t] = "is_model_loaded"
          /\ IF is_model_loaded(ml_call[t].name)
               THEN Return(t, "Ok")
               ELSE Goto(t, "check_loading")
          /\ UNCHANGED <<current_model, loading, ml_events>>
       \/ /\ ml_pc[t] = "check_loading"
          /\ IF loading.present
               THEN Return(t, "Another model is currently loading")
               ELSE Goto(t, "mark_loading")
          /\ UNCHANGED <<current_model, loading, ml_events>>
       \/ /\ ml_pc[t] = "mark_loading"
          /\ loading' = SomeModel(ml_call[t].name)
          /\ Goto(t, "emit_started")
          /\ UNCHANGED <<current_model, ml_events>>
       \/ /\ ml_pc[t] = "emit_started"
          /\ ml_events' = Append(ml_events, ModelLoadingStateChanged("Started", t))
          /\ Goto(t, "lookup")
          /\ UNCHANGED <<current_model, loading>>
       \/ /\ ml_pc[t] = "lookup"
          /\ IF ml_call[t].name \notin ModelCatalog
               THEN \* ok_or_else(..)?: returns as it stands
                    /\ Return(t, "Model not found in catalog")
                    /\ UNCHANGED <<loading, ml_events>>
               ELSE \/ \* !model_path.exists(): Error is emitted with the
                       \* loading lock held
                       /\ loading' = NoModel
                       /\ ml_events' =
                            Append(ml_events, ModelLoadingStateChanged("Error", t))
                       /\ Return(t, "Model file not found")
                    \/ /\ Goto(t, "unload_model")
                       /\ UNCHANGED <<loading, ml_events>>
          /\ UNCHANGED current_model
       \/ /\ ml_pc[t] = "unload_model"
          /\ current_model' = NoModel
          /\ Goto(t, "LocalClient::new")
          /\ UNCHANGED <<loading, ml_events>>
       \/ /\ ml_pc[t] = "LocalClient::new"
          /\ \E result \in {"Ok(Ok(client))", "Ok(Err(e))", "Err(e)"} :
               ml_call' = [ml_call EXCEPT ![t].client = result]
          /\ ml_pc' = [ml_pc EXCEPT ![t] = "clear_loading"]
          /\ UNCHANGED <<current_model, loading, ml_events>>
       \/ /\ ml_pc[t] = "clear_loading"
          /\ loading' = NoModel
          /\ Goto(t, "match_result")
          /\ UNCHANGED <<current_model, ml_events>>
       \/ /\ ml_pc[t] = "match_result"
          /\ IF ml_call[t].client = "Ok(Ok(client))"
               THEN \* Complete is emitted with the current_model lock held
                    /\ current_model' = SomeModel(ml_call[t].name)
                    /\ ml_events' =
                         Append(ml_events, ModelLoadingStateChanged("Complete", t))
                    /\ Return(t, "Ok")
               ELSE /\ ml_events' =
                         Append(ml_events, ModelLoadingStateChanged("Error", t))
                    /\ Return(t, IF ml_call[t].client = "Ok(Err(e))"
                                   THEN "Failed to load model"
                                   ELSE "Task panicked while loading model")
                    /\ UNCHANGED current_model
          /\ UNCHANGED loading
    /\ UNCHANGED <<non_ml_vars, ml_inferences, n_loader_calls>>

\* load_model_sync returns result: to its caller when a thread called it, or
\* into transcribe_with_model, which goes on when it is Ok and returns the
\* error otherwise (the ? at the call)
ReturnSync(t, result) ==
    IF ml_call[t].op = "transcribe_with_model" /\ result = "Ok"
      THEN Goto(t, "verify")
      ELSE Return(t, result)

\* ModelLoader::load_model_sync, one step of thread t, called by the thread
\* or from transcribe_with_model
load_model_sync(t) ==
    /\ ml_call[t].op \in {"load_model_sync", "transcribe_with_model"}
    /\ \/ /\ ml_pc[t] = "is_model_loaded"
          /\ IF is_model_loaded(ml_call[t].name)
               THEN ReturnSync(t, "Ok")
               ELSE Goto(t, "check_loading")
          /\ UNCHANGED <<current_model, loading>>
       \/ /\ ml_pc[t] = "check_loading"
          /\ IF loading.present
               THEN ReturnSync(t, "Another model is currently loading")
               ELSE Goto(t, "mark_loading")
          /\ UNCHANGED <<current_model, loading>>
       \/ /\ ml_pc[t] = "mark_loading"
          /\ loading' = SomeModel(ml_call[t].name)
          /\ Goto(t, "lookup")
          /\ UNCHANGED current_model
       \/ /\ ml_pc[t] = "lookup"
          /\ IF ml_call[t].name \notin ModelCatalog
               THEN /\ ReturnSync(t, "Model not found in catalog")
                    /\ UNCHANGED loading
               ELSE \/ /\ loading' = NoModel
                       /\ ReturnSync(t, "Model file not found")
                    \/ /\ Goto(t, "unload_model")
                       /\ UNCHANGED loading
          /\ UNCHANGED current_model
       \/ /\ ml_pc[t] = "unload_model"
          /\ current_model' = NoModel
          /\ Goto(t, "LocalClient::new")
          /\ UNCHANGED loading
       \/ /\ ml_pc[t] = "LocalClient::new"
          /\ \E result \in {"Ok(client)", "Err(e)"} :
               ml_call' = [ml_call EXCEPT ![t].client = result]
          /\ ml_pc' = [ml_pc EXCEPT ![t] = "clear_loading"]
          /\ UNCHANGED <<current_model, loading>>
       \/ /\ ml_pc[t] = "clear_loading"
          /\ loading' = NoModel
          /\ Goto(t, "match_result")
          /\ UNCHANGED current_model
       \/ /\ ml_pc[t] = "match_result"
          /\ IF ml_call[t].client = "Ok(client)"
               THEN /\ current_model' = SomeModel(ml_call[t].name)
                    /\ ReturnSync(t, "Ok")
               ELSE /\ ReturnSync(t, "Failed to load model")
                    /\ UNCHANGED current_model
          /\ UNCHANGED loading
    /\ UNCHANGED <<non_ml_vars, ml_events, ml_inferences, n_loader_calls>>

\* ModelLoader::transcribe_with_model without the second look at the name:
\* it transcribes with the model that is loaded
transcribe_with_model_any_loaded(t) ==
    /\ ml_call[t].op = "transcribe_with_model"
    /\ \/ /\ ml_pc[t] = "needs_load"
          /\ IF is_model_loaded(ml_call[t].name)
               THEN Goto(t, "verify")
               ELSE Goto(t, "is_model_loaded")
          /\ UNCHANGED ml_inferences
       \/ /\ ml_pc[t] = "verify"
          /\ IF current_model.present
               THEN /\ ml_inferences' = ml_inferences \cup
                         {[requested |-> ml_call[t].name,
                           used |-> current_model.name]}
                    /\ \E result \in {"Ok(text)", "transcribe_file failed"} :
                         Return(t, result)
               ELSE /\ Return(t, "Model was unloaded during transcription")
                    /\ UNCHANGED ml_inferences
    /\ UNCHANGED <<non_ml_vars, current_model, loading, ml_events, n_loader_calls>>

\* ModelLoader::transcribe_with_model, its own steps (the steps of the
\* load_model_sync it calls are load_model_sync's): the first look at
\* current_model, and the second look with the inference under the same lock
transcribe_with_model(t) ==
    /\ ml_call[t].op = "transcribe_with_model"
    /\ \/ /\ ml_pc[t] = "needs_load"
          /\ IF is_model_loaded(ml_call[t].name)
               THEN Goto(t, "verify")
               ELSE Goto(t, "is_model_loaded")
          /\ UNCHANGED ml_inferences
       \/ /\ ml_pc[t] = "verify"
          /\ IF current_model.present /\ current_model.name = ml_call[t].name
               THEN /\ ml_inferences' = ml_inferences \cup
                         {[requested |-> ml_call[t].name,
                           used |-> current_model.name]}
                    /\ \E result \in {"Ok(text)", "transcribe_file failed"} :
                         Return(t, result)
               ELSE IF current_model.present
                 THEN /\ Return(t, "Model changed during transcription")
                      /\ UNCHANGED ml_inferences
                 ELSE /\ Return(t, "Model was unloaded during transcription")
                      /\ UNCHANGED ml_inferences
    /\ UNCHANGED <<non_ml_vars, current_model, loading, ml_events, n_loader_calls>>

\* threads calling into one ModelLoader in any interleaving
NextLoader ==
    \E t \in Threads :
        \/ \E op \in LoaderOps \ {"unload_model"}, model_name \in ModelNames :
             LoaderCall(t, op, model_name)
        \/ unload_model(t)
        \/ load_model(t)
        \/ load_model_sync(t)
        \/ transcribe_with_model(t)

SpecLoader == Init /\ [][NextLoader]_vars

\* ------------------------------------------------------------------------
\* The paste step (text_paster.rs, clipboard_paste.rs)
\* ------------------------------------------------------------------------
\* the texts given to the paste functions
PasteTexts == {"", "X"}

\* the texts other applications copy while a paste is under way
ForeignTexts == {"X", "Z"}

PasteFunctions == {"paste_text", "auto_paste_text", "auto_paste_text_cgevent"}

\* one access to the clipboard
ClipboardAccess(by, op, text, ok) ==
    [by |-> by, op |-> op, text |-> text, ok |-> ok]

\* the paste call returns result; nothing of it is left to run
PasteReturn(result) ==
    /\ ps_pc' = "done"
    /\ ps_call' = [ps_call EXCEPT !.result = result]

\* the paste call goes on with the step at
PasteGoto(at) ==
    /\ ps_pc' = at
    /\ UNCHANGED ps_call

\* another application copies text while the paste call or its restore
\* thread is under way
ForeignWrite(text) ==
    /\ ps_pc \notin {"idle", "done"}
    /\ Len(SelectSeq(cb_log, LAMBDA a : a.by = "foreign")) < MaxForeignWrites
    /\ clipboard' = SomeText(text)
    /\ cb_log' = Append(cb_log, ClipboardAccess("foreign", "set", text, TRUE))
    /\ UNCHANGED <<ps_pc, ps_call, ps_keys>>
    /\ UNCHANGED non_ps_vars

\* text_paster::paste_text with the guard against empty text left out
paste_text_no_guard ==
    /\ ps_call.function = "paste_text"
    /\ \/ /\ ps_pc = "guard"
          /\ PasteGoto("get")
          /\ UNCHANGED <<clipboard, ps_keys, cb_log>>
       \/ /\ ps_pc = "get"
          /\ \/ /\ clipboard.present
                /\ ps_call' = [ps_call EXCEPT !.previous_clipboard = clipboard]
                /\ cb_log' = Append(cb_log,
                                ClipboardAccess("paste", "get", clipboard.text, TRUE))
             \/ /\ ps_call' = [ps_call EXCEPT !.previous_clipboard = NoText]
                /\ cb_log' = Append(cb_log, ClipboardAccess("paste", "get", "", FALSE))
          /\ ps_pc' = "set"
          /\ UNCHANGED <<clipboard, ps_keys>>
       \/ /\ ps_pc = "set"
          /\ \/ /\ clipboard' = SomeText(ps_call.text)
                /\ cb_log' = Append(cb_log,
                                ClipboardAccess("paste", "set", ps_call.text, TRUE))
                /\ PasteGoto("simulate_paste")
             \/ /\ cb_log' = Append(cb_log,
                                ClipboardAccess("paste", "set", ps_call.text, FALSE))
                /\ PasteReturn("ClipboardError")
                /\ UNCHANGED clipboard
          /\ UNCHANGED ps_keys
       \/ /\ ps_pc = "simulate_paste"
          /\ \/ /\ ps_keys' = ps_keys \o <<"down", "up">>
                /\ PasteGoto("restore")
             \/ /\ PasteReturn("EventSourceCreationFailed")
                /\ UNCHANGED ps_keys
             \/ /\ PasteReturn("KeyEventCreationFailed")
                /\ UNCHANGED ps_keys
             \/ /\ ps_keys' = Append(ps_keys, "down")
                /\ PasteReturn("KeyEventCreationFailed")
          /\ UNCHANGED <<clipboard, cb_log>>
       \/ /\ ps_pc = "restore"
          /\ IF ps_call.previous_clipboard.present
               THEN \/ /\ clipboard' = ps_call.previous_clipboard
                       /\ cb_log' = Append(cb_log,
                            ClipboardAccess("paste", "set",
                                            ps_call.previous_clipboard.text, TRUE))
                    \/ /\ cb_log' = Append(cb_log,
                            ClipboardAccess("paste", "set",
                                            ps_call.previous_clipboard.text, FALSE))
                       /\ UNCHANGED clipboard
               ELSE UNCHANGED <<clipboard, cb_log>>
          /\ PasteReturn("Ok")
          /\ UNCHANGED ps_keys
    /\ UNCHANGED non_ps_vars

\* text_paster::paste_text, one step: the guard, the snapshot of the
\* clipboard, the write of the text, the keystroke, and after the sleep the
\* write of the snapshot
paste_text ==
    /\ ps_call.function = "paste_text"
    /\ \/ /\ ps_pc = "guard"
          /\ IF ps_call.text = ""
               THEN PasteReturn("EmptyText")
               ELSE PasteGoto("get")
          /\ UNCHANGED <<clipboard, ps_keys, cb_log>>
       \/ /\ ps_pc = "get"
          /\ \/ /\ clipboard.present
                /\ ps_call' = [ps_call EXCEPT !.previous_clipboard = clipboard]
                /\ cb_log' = Append(cb_log,
                                ClipboardAccess("paste", "get", clipboard.text, TRUE))
             \/ /\ ps_call' = [ps_call EXCEPT !.previous_clipboard = NoText]
                /\ cb_log' = Append(cb_log, ClipboardAccess("paste", "get", "", FALSE))
          /\ ps_pc' = "set"
          /\ UNCHANGED <<clipboard, ps_keys>>
       \/ /\ ps_pc = "set"
          /\ \/ /\ clipboard' = SomeText(ps_call.text)
                /\ cb_log' = Append(cb_log,
                                ClipboardAccess("paste", "set", ps_call.text, TRUE))
                /\ PasteGoto("simulate_paste")
             \/ /\ cb_log' = Append(cb_log,
                                ClipboardAccess("paste", "set", ps_call.text, FALSE))
                /\ PasteReturn("ClipboardError")
                /\ UNCHANGED clipboard
          /\ UNCHANGED ps_keys
       \/ /\ ps_pc = "simulate_paste"
          /\ \/ /\ ps_keys' = ps_keys \o <<"down", "up">>
                /\ PasteGoto("restore")
             \/ /\ PasteReturn("EventSourceCreationFailed")
                /\ UNCHANGED ps_keys
             \/ /\ PasteReturn("KeyEventCreationFailed")
                /\ UNCHANGED ps_keys
             \/ /\ ps_keys' = Append(ps_keys, "down")
                /\ PasteReturn("KeyEventCreationFailed")
          /\ UNCHANGED <<clipboard, cb_log>>
       \/ /\ ps_pc = "restore"
          /\ IF ps_call.previous_clipboard.present
               THEN \/ /\ clipboard' = ps_call.previous_clipboard
                       /\ cb_log' = Append(cb_log,
                            ClipboardAccess("paste", "set",
                                            ps_call.previous_clipboard.text, TRUE))
                    \/ /\ cb_log' = Append(cb_log,
                            ClipboardAccess("paste", "set",
                                            ps_call.previous_clipboard.text, FALSE))
                       /\ UNCHANGED clipboard
               ELSE UNCHANGED <<clipboard, cb_log>>
          /\ PasteReturn("Ok")
          /\ UNCHANGED ps_keys
    /\ UNCHANGED non_ps_vars

\* the steps auto_paste_text and auto_paste_text_cgevent share up to the
\* keystroke: the guard, Clipboard::new with the snapshot, the write of the
\* text
AutoPasteUpToKeystroke ==
    \/ /\ ps_pc = "guard"
       /\ IF ps_call.text = ""
            THEN PasteReturn("Cannot paste empty text")
            ELSE PasteGoto("get")
       /\ UNCHANGED <<clipboard, ps_keys, cb_log>>
    \/ /\ ps_pc = "get"
       /\ \/ /\ PasteReturn("Failed to access clipboard")
             /\ UNCHANGED cb_log
          \/ /\ clipboard.present
             /\ ps_call' = [ps_call EXCEPT !.previous_clipboard = clipboard]
             /\ cb_log' = Append(cb_log,
                             ClipboardAccess("paste", "get", clipboard.text, TRUE))
             /\ ps_pc' = "set"
          \/ /\ ps_call' = [ps_call EXCEPT !.previous_clipboard = NoText]
             /\ cb_log' = Append(cb_log, ClipboardAccess("paste", "get", "", FALSE))
             /\ ps_pc' = "set"
       /\ UNCHANGED <<clipboard, ps_keys>>
    \/ /\ ps_pc = "set"
       /\ \/ /\ clipboard' = SomeText(ps_call.text)
             /\ cb_log' = Append(cb_log,
                             ClipboardAccess("paste", "set", ps_call.text, TRUE))
             /\ PasteGoto("simulate_paste")
          \/ /\ cb_log' = Append(cb_log,
                             ClipboardAccess("paste", "set", ps_call.text, FALSE))
             /\ PasteReturn("Failed to set clipboard text")
             /\ UNCHANGED clipboard
       /\ UNCHANGED ps_keys

\* the keystroke was made: the function returns Ok, and a thread is spawned
\* to restore the clipboard when there is a snapshot
AutoPasteOk ==
    /\ ps_call' = [ps_call EXCEPT !.result = "Ok"]
    /\ ps_pc' = IF ps_call.previous_clipboard.present THEN "restore_check"
                                                      ELSE "done"

\* the thread spawned to restore the clipboard: after the sleep it reads
\* the clipboard, and writes the snapshot when the text read is the text
\* pasted
AutoPasteRestore ==
    \/ /\ ps_pc = "restore_check"
       /\ \/ \* Clipboard::new or get_text fails
             /\ ps_pc' = "done"
             /\ cb_log' = Append(cb_log, ClipboardAccess("paste", "get", "", FALSE))
          \/ /\ clipboard.present
             /\ cb_log' = Append(cb_log,
                             ClipboardAccess("paste", "get", clipboard.text, TRUE))
             /\ ps_pc' = IF clipboard.text = ps_call.text THEN "restore_set"
                                                          ELSE "done"
       /\ UNCHANGED <<clipboard, ps_call, ps_keys>>
    \/ /\ ps_pc = "restore_set"
       /\ \/ /\ clipboard' = ps_call.previous_clipboard
             /\ cb_log' = Append(cb_log,
                             ClipboardAccess("paste", "set",
                                             ps_call.previous_clipboard.text, TRUE))
          \/ /\ cb_log' = Append(cb_log,
                             ClipboardAccess("paste", "set",
                                             ps_call.previous_clipboard.text, FALSE))
             /\ UNCHANGED clipboard
       /\ ps_pc' = "done"
       /\ UNCHANGED <<ps_call, ps_keys>>

\* clipboard_paste::auto_paste_text, one step: the keystroke is made by
\* osascript
auto_paste_text ==
    /\ ps_call.function = "auto_paste_text"
    /\ \/ AutoPasteUpToKeystroke
       \/ /\ ps_pc = "simulate_paste"
          /\ \/ /\ ps_keys' = ps_keys \o <<"down", "up">>
                /\ AutoPasteOk
             \/ /\ PasteReturn("Failed to execute AppleScript")
                /\ UNCHANGED ps_keys
             \/ /\ PasteReturn("AppleScript failed")
                /\ UNCHANGED ps_keys
          /\ UNCHANGED <<clipboard, cb_log>>
       \/ AutoPasteRestore
    /\ UNCHANGED non_ps_vars

\* clipboard_paste::auto_paste_text_cgevent, one step: the keystroke is made
\* by paste_with_cgevent
auto_paste_text_cgevent ==
    /\ ps_call.function = "auto_paste_text_cgevent"
    /\ \/ AutoPasteUpToKeystroke
       \/ /\ ps_pc = "simulate_paste"
          /\ \/ /\ ps_keys' = ps_keys \o <<"down", "up">>
                /\ AutoPasteOk
             \/ /\ PasteReturn("Failed to create event source")
                /\ UNCHANGED ps_keys
             \/ /\ PasteReturn("Failed to create key down event")
                /\ UNCHANGED ps_keys
             \/ /\ ps_keys' = Append(ps_keys, "down")
                /\ PasteReturn("Failed to create key up event")
          /\ UNCHANGED <<clipboard, cb_log>>
       \/ AutoPasteRestore
    /\ UNCHANGED non_ps_vars

\* a paste function is called with a text, on a clipboard that holds the
\* text Y or no text
InitPaste ==
    /\ CoreInit
    /\ TxInit
    /\ VsInit
    /\ TapInit(TRUE)
    /\ clipboard \in {NoText, SomeText("Y")}
    /\ ps_pc = "guard"
    /\ \E function \in PasteFunctions, text \in PasteTexts :
         ps_call = [function |-> function, text |-> text,
                    previous_clipboard |-> NoText, result |-> "none"]
    /\ ps_keys = << >>
    /\ cb_log = << >>

NextPaste ==
    \/ paste_text
    \/ auto_paste_text
    \/ auto_paste_text_cgevent
    \/ \E text \in ForeignTexts : ForeignWrite(text)

SpecPaste == InitPaste /\ [][NextPaste]_vars

\* ------------------------------------------------------------------------
\* The transcription wrapper (clients/transcriber.rs)
\* ------------------------------------------------------------------------
\* config.rs: the minimum speech duration setting, its default and the range
\* update_app_config accepts
DEFAULT_MIN_SPEECH_DURATION_MS == 500
MIN_ALLOWED_SPEECH_DURATION_MS == 100
MAX_ALLOWED_SPEECH_DURATION_MS == 10000

\* the values of AppConfig.min_speech_duration_ms tried
MinSpeechDurations ==
    {MIN_ALLOWED_SPEECH_DURATION_MS, DEFAULT_MIN_SPEECH_DURATION_MS,
     2 * DEFAULT_MIN_SPEECH_DURATION_MS, MAX_ALLOWED_SPEECH_DURATION_MS}

\* the voiced durations tried: around each value of the setting and around
\* the constant of transcriber.rs
Durations ==
    {0} \cup UNION { {d - 1, d, d + 1} : d \in MinSpeechDurations }

\* the file sizes tried
FileSizes == {0, MAX_FILE_SIZE_BYTES, MAX_FILE_SIZE_BYTES + 1}

\* the record of a Transcriber::transcribe call
TranscribeCall(result, text, service_called) ==
    [op |-> "transcribe", result |-> result, text |-> text,
     service_called |-> service_called]

\* Transcriber::validate_file: what it may return for a file that exists or
\* not and has the given size (std::fs::metadata may fail)
validate_file(exists, file_size) ==
    IF ~exists THEN {"FileNotFound"}
    ELSE {"IoError"} \cup
         (IF file_size > MAX_FILE_SIZE_BYTES THEN {"FileTooLarge"} ELSE {"Ok"})

\* Transcriber::transcribe: the calls it may make for a duration and a file;
\* the duration is compared with the constant MIN_AUDIO_DURATION_MS
transcribe(duration_ms, exists, file_size) ==
    IF duration_ms < MIN_AUDIO_DURATION_MS
      THEN { TranscribeCall("Ok", "", FALSE) }
      ELSE UNION { IF v /= "Ok"
                     THEN { TranscribeCall(v, "", FALSE) }
                     ELSE { TranscribeCall("Ok", t, TRUE) : t \in Texts }
                          \cup { TranscribeCall("ApiError", "", TRUE) }
                 : v \in validate_file(exists, file_size) }

ApplyTranscribe ==
    /\ tx_call = NoTranscribeCall
    /\ tx_call' \in transcribe(tx_in.duration_ms, tx_in.exists, tx_in.file_size)
    /\ UNCHANGED <<non_tx_vars, tx_in>>

\* every setting, duration and file tried
InitTranscribe ==
    /\ CoreInit
    /\ PsInit(NoText)
    /\ VsInit
    /\ TapInit(TRUE)
    /\ tx_call = NoTranscribeCall
    /\ \E m \in MinSpeechDurations, d \in Durations, e \in BOOLEAN,
          s \in FileSizes :
         tx_in = [min_speech_duration_ms |-> m, duration_ms |-> d,
                  exists |-> e, file_size |-> s]

SpecTranscribe == InitTranscribe /\ [][ApplyTranscribe]_vars

\* ------------------------------------------------------------------------
\* Recording sessions on one VAD (recording/vad.rs, audio_recorder.rs)
\* ------------------------------------------------------------------------
\* SmoothedVad::reset that keeps the pre-roll buffer
vad_reset_keep_frame_buffer(sv) ==
    [sv EXCEPT !.hangover_counter = 0,
               !.onset_counter = 0,
               !.in_speech = FALSE,
               !.temp_out = << >>,
               !.inner_vad = [@ EXCEPT !.state = "zeros", !.context = 0]]

\* SmoothedVad::reset, with SileroVad::reset for the inner detector
vad_reset(sv) ==
    [sv EXCEPT !.frame_buffer = << >>,
               !.hangover_counter = 0,
               !.onset_counter = 0,
               !.in_speech = FALSE,
               !.temp_out = << >>,
               !.inner_vad = [@ EXCEPT !.state = "zeros", !.context = 0]]

\* AudioRecorder::start for the next session on the same recorder: a new
\* WAV writer, the VAD reset, a new speech sample counter, a new accumulator
start ==
    /\ n_sessions < MaxSessions
    /\ n_sessions' = n_sessions + 1
    /\ session_first' = Len(pushed)
    /\ vad' = IF vad_enabled THEN vad_reset(vad) ELSE vad
    /\ vad_buffer' = << >>
    /\ wav' = << >>
    /\ speech_sample_count' = 0
    /\ n_writes' = 0
    /\ recording_result' = NoRecordingResult
    /\ UNCHANGED <<sm_vars, chan_vars, ctl_vars, kl_vars, cfg_vars, ml_vars,
                   ps_vars, tx_vars, tap_vars, vad_enabled, inner, n_samples, n_callbacks,
                   pushed, emitted, write_fail>>

\* the recorder's VAD as create_vad makes it, and every sequence of answers
\* of the inner detector for MaxSessionFrames frames
InitSessions ==
    /\ sm_state = "Ready"
    /\ sm_hist = << >>
    /\ CtlInit
    /\ KlInit(DefaultShortcuts)
    /\ CfgInit
    /\ MlInit
    /\ RestInit
    /\ \E decisions \in [1..MaxSessionFrames -> InnerResults] :
         VadInit(TRUE, decisions, 0)

NextSessions ==
    \/ PushFrame
    \/ start

SpecSessions == InitSessions /\ [][NextSessions]_vars

\* ------------------------------------------------------------------------
\* Two speech segments on the recorder's VAD (recording/vad.rs)
\* ------------------------------------------------------------------------
\* n answers d of the inner detector
Run(d, n) == [i \in 1..n |-> d]

\* the recorder's VAD (pre-roll 14, hangover 14, onset 2) given a run of
\* voiced frames, a run of unvoiced frames and a second run of voiced frames
InitOnsets ==
    /\ sm_state = "Ready"
    /\ sm_hist = << >>
    /\ CtlInit
    /\ KlInit(DefaultShortcuts)
    /\ CfgInit
    /\ MlInit
    /\ RestInit
    /\ \E a \in 1..MaxVoiceRun, b \in 0..MaxNoiseRun, c \in 0..MaxVoiceRun :
         VadInit(TRUE, Run("voice", a) \o Run("noise", b) \o Run("voice", c), 0)

SpecOnsets == InitOnsets /\ [][PushFrame]_vars

\* ------------------------------------------------------------------------
\* The event tap (crates/keyboard/src/macos.rs)
\* ------------------------------------------------------------------------
\* CGEventType::TapDisabledByTimeout and TapDisabledByUserInput
TapDisabledEvents == {"TapDisabledByTimeout", "TapDisabledByUserInput"}

non_tap_vars == <<core_vars, ps_vars, tx_vars, vs_vars>>

\* check_accessibility
check_accessibility == accessibility

\* CFRunLoop::stop: a running loop stops; on a loop that is not yet running
\* the request is either lost or makes the coming run return at once
CFRunLoopStop ==
    IF run_loop = "idle" THEN run_loop' \in {"idle", "stopped"}
                         ELSE run_loop' = "stopped"

\* what event_tap_callback did on one tap-disabled event
TapCall(event_type, granted, enable_calls, stop_calls) ==
    [event_type |-> event_type, granted |-> granted,
     enable_calls |-> enable_calls, stop_calls |-> stop_calls]

\* grab up to the spawn of the polling thread: the permission check, the
\* creation of the tap, TAP_REF, tap_enable, RUN_LOOP_REF, the spawn
grab ==
    /\ grab_pc = "start"
    /\ IF ~check_accessibility
         THEN /\ grab_pc' = "Err(AccessibilityNotGranted)"
              /\ UNCHANGED <<tap_enabled, TAP_REF, RUN_LOOP_REF, poll_pc>>
         ELSE \/ /\ grab_pc' = "Err(EventTapError)"
                 /\ UNCHANGED <<tap_enabled, TAP_REF, RUN_LOOP_REF, poll_pc>>
              \/ /\ TAP_REF' = TRUE
                 /\ tap_enabled' = TRUE
                 /\ RUN_LOOP_REF' = TRUE
                 /\ poll_pc' = "loop_test"
                 /\ grab_pc' = "spawned"
    /\ UNCHANGED <<non_tap_vars, accessibility, run_loop, stop_polling,
                   notification, tap_calls, n_disables, n_permission_changes>>

\* grab: CFRunLoop::run() is entered
CFRunLoopRun ==
    /\ grab_pc = "spawned"
    /\ grab_pc' = "run"
    /\ run_loop' = IF run_loop = "idle" THEN "running" ELSE run_loop
    /\ UNCHANGED <<non_tap_vars, accessibility, tap_enabled, TAP_REF,
                   RUN_LOOP_REF, stop_polling, poll_pc, notification,
                   tap_calls, n_disables, n_permission_changes>>

\* grab: CFRunLoop::run() returned; stop_polling.store(true)
grab_signal ==
    /\ grab_pc = "run"
    /\ run_loop = "stopped"
    /\ stop_polling' = TRUE
    /\ grab_pc' = "join"
    /\ UNCHANGED <<non_tap_vars, accessibility, tap_enabled, TAP_REF,
                   RUN_LOOP_REF, run_loop, poll_pc, notification, tap_calls,
                   n_disables, n_permission_changes>>

\* grab: polling_thread.join() returned; the statics are cleared, Ok(())
grab_join ==
    /\ grab_pc = "join"
    /\ poll_pc = "stopped"
    /\ RUN_LOOP_REF' = FALSE
    /\ TAP_REF' = FALSE
    /\ grab_pc' = "Ok"
    /\ UNCHANGED <<non_tap_vars, accessibility, tap_enabled, run_loop,
                   stop_polling, poll_pc, notification, tap_calls, n_disables,
                   n_permission_changes>>

\* the polling thread: while !stop_polling.load()
poll_loop_test ==
    /\ poll_pc = "loop_test"
    /\ poll_pc' = IF stop_polling THEN "stopped" ELSE "sleep"
    /\ UNCHANGED <<non_tap_vars, accessibility, tap_enabled, TAP_REF,
                   RUN_LOOP_REF, run_loop, stop_polling, grab_pc,
                   notification, tap_calls, n_disables, n_permission_changes>>

\* the polling thread after its sleep: without the permission, stop the run
\* loop behind RUN_LOOP_REF and leave the loop
poll_check ==
    /\ poll_pc = "sleep"
    /\ IF ~check_accessibility
         THEN /\ IF RUN_LOOP_REF THEN CFRunLoopStop ELSE UNCHANGED run_loop
              /\ poll_pc' = "stopped"
         ELSE /\ poll_pc' = "loop_test"
              /\ UNCHANGED run_loop
    /\ UNCHANGED <<non_tap_vars, accessibility, tap_enabled, TAP_REF,
                   RUN_LOOP_REF, stop_polling, grab_pc, notification,
                   tap_calls, n_disables, n_permission_changes>>

\* the OS disables the tap and posts the tap-disabled event to the callback
TapDisabled(event_type) ==
    /\ grab_pc = "run"
    /\ run_loop = "running"
    /\ tap_enabled
    /\ notification = "None"
    /\ n_disables < MaxDisables
    /\ n_disables' = n_disables + 1
    /\ tap_enabled' = FALSE
    /\ notification' = event_type
    /\ UNCHANGED <<non_tap_vars, accessibility, TAP_REF, RUN_LOOP_REF,
                   run_loop, stop_polling, grab_pc, poll_pc, tap_calls,
                   n_permission_changes>>

\* event_tap_callback that re-enables the tap without the permission check
event_tap_callback_always_enable ==
    /\ grab_pc = "run"
    /\ run_loop = "running"
    /\ notification \in TapDisabledEvents
    /\ notification' = "None"
    /\ IF TAP_REF
         THEN /\ tap_enabled' \in BOOLEAN
              /\ tap_calls' = Append(tap_calls,
                    TapCall(notification, check_accessibility, 1, 0))
         ELSE /\ tap_calls' = Append(tap_calls,
                    TapCall(notification, check_accessibility, 0, 0))
              /\ UNCHANGED tap_enabled
    /\ UNCHANGED run_loop
    /\ UNCHANGED <<non_tap_vars, accessibility, TAP_REF, RUN_LOOP_REF,
                   stop_polling, grab_pc, poll_pc, n_disables,
                   n_permission_changes>>

\* event_tap_callback on TapDisabledByTimeout / TapDisabledByUserInput: with
\* the permission, one tap_enable on the tap behind TAP_REF (whether the tap
\* is enabled after the call is the OS's answer); without it, stop the
\* current run loop; then return
event_tap_callback ==
    /\ grab_pc = "run"
    /\ run_loop = "running"
    /\ notification \in TapDisabledEvents
    /\ notification' = "None"
    /\ IF check_accessibility
         THEN /\ IF TAP_REF
                   THEN /\ tap_enabled' \in BOOLEAN
                        /\ tap_calls' = Append(tap_calls,
                              TapCall(notification, TRUE, 1, 0))
                   ELSE /\ tap_calls' = Append(tap_calls,
                              TapCall(notification, TRUE, 0, 0))
                        /\ UNCHANGED tap_enabled
              /\ UNCHANGED run_loop
         ELSE /\ CFRunLoopStop
              /\ tap_calls' = Append(tap_calls,
                    TapCall(notification, FALSE, 0, 1))
              /\ UNCHANGED tap_enabled
    /\ UNCHANGED <<non_tap_vars, accessibility, TAP_REF, RUN_LOOP_REF,
                   stop_polling, grab_pc, poll_pc, n_disables,
                   n_permission_changes>>

\* the user grants or revokes the accessibility permission
PermissionChange ==
    /\ n_permission_changes < MaxPermissionChanges
    /\ n_permission_changes' = n_permission_changes + 1
    /\ accessibility' = ~accessibility
    /\ UNCHANGED <<non_tap_vars, tap_enabled, TAP_REF, RUN_LOOP_REF, run_loop,
                   stop_polling, grab_pc, poll_pc, notification, tap_calls,
                   n_disables>>

\* the steps of the thread that called grab
GrabStep ==
    \/ grab
    \/ CFRunLoopRun
    \/ grab_signal
    \/ grab_join

\* the steps of the polling thread
PollStep ==
    \/ poll_loop_test
    \/ poll_check

InitTap ==
    /\ CoreInit
    /\ PsInit(NoText)
    /\ TxInit
    /\ VsInit
    /\ \E granted \in BOOLEAN : TapInit(granted)

NextTap ==
    \/ GrabStep
    \/ PollStep
    \/ \E event_type \in TapDisabledEvents : TapDisabled(event_type)
    \/ event_tap_callback
    \/ PermissionChange

\* the threads run: the thread of grab, the polling thread and the run
\* loop's delivery of a posted event each take their step when it stays
\* possible
SpecTap ==
    /\ InitTap
    /\ [][NextTap]_vars
    /\ WF_vars(GrabStep)
    /\ WF_vars(PollStep)
    /\ WF_vars(event_tap_callback)

\* ------------------------------------------------------------------------
\* Properties of the state manager (checked under SpecSM)
\* ------------------------------------------------------------------------
\* the last call recorded in sm_hist
SmLast == sm_hist[Len(sm_hist)]

Changed(h, to, action) ==
    h.result = "Changed" /\ h.to = to /\ h.action = action

Rejected(h) ==
    h.result = "Rejected" /\ h.to = h.from /\ h.action = None

\* C1: from Ready, Start moves to Recording with action StartRecording and
\* Retry moves to Transcribing with action RetryTranscription; from Recording,
\* Stop moves to Transcribing with action StopAndTranscribe, Lock moves to
\* RecordingLocked with no action and Cancel moves to Ready with action
\* CancelRecording; every other command event in Ready or Recording is
\* rejected.
C1_ReadyAndRecordingRows ==
    \A i \in 1..Len(sm_hist) :
      LET h == sm_hist[i] IN
      /\ (h.call = "transition" /\ h.from = "Ready") =>
            CASE h.event = "Start" -> Changed(h, "Recording", "StartRecording")
              [] h.event = "Retry" -> Changed(h, "Transcribing", "RetryTranscription")
              [] OTHER -> Rejected(h)
      /\ (h.call = "transition" /\ h.from = "Recording") =>
            CASE h.event = "Stop" -> Changed(h, "Transcribing", "StopAndTranscribe")
              [] h.event = "Lock" -> Changed(h, "RecordingLocked", None)
              [] h.event = "Cancel" -> Changed(h, "Ready", "CancelRecording")
              [] OTHER -> Rejected(h)

\* a run where Start was accepted in Ready, Retry was rejected in Recording
\* and Cancel then returned to Ready
C1_Witness ==
    /\ Len(sm_hist) = 3
    /\ sm_hist[1].from = "Ready" /\ sm_hist[1].event = "Start"
    /\ sm_hist[1].result = "Changed"
    /\ sm_hist[2].from = "Recording" /\ sm_hist[2].event = "Retry"
    /\ sm_hist[2].result = "Rejected"
    /\ sm_hist[3].from = "Recording" /\ sm_hist[3].event = "Cancel"
    /\ sm_state = "Ready"

\* C2: from RecordingLocked, both a Start event and a Stop event move the
\* state to Transcribing with action StopAndTranscribe, Cancel moves it to
\* Ready with action CancelRecording, and Lock and Retry are rejected.
C2_LockedRow ==
    \A i \in 1..Len(sm_hist) :
      LET h == sm_hist[i] IN
      (h.call = "transition" /\ h.from = "RecordingLocked") =>
        CASE h.event \in {"Start", "Stop"} ->
               Changed(h, "Transcribing", "StopAndTranscribe")
          [] h.event = "Cancel" -> Changed(h, "Ready", "CancelRecording")
          [] OTHER -> Rejected(h)

\* C3: in Transcribing every command event is rejected and leaves the state
\* Transcribing (a Cancel does not abort it); the state leaves Transcribing
\* only to Ready and only through reset(), which sets Ready from any state.
C3_TranscribingLeavesOnlyByReset ==
    [][ /\ (sm_state = "Transcribing" /\ sm_hist' /= sm_hist
              /\ sm_hist'[Len(sm_hist')].call = "transition")
           => (Rejected(sm_hist'[Len(sm_hist')]) /\ sm_state' = "Transcribing")
        /\ (sm_state = "Transcribing" /\ sm_state' /= "Transcribing")
           => (sm_state' = "Ready" /\ sm_hist'[Len(sm_hist')].call = "reset")
        /\ (sm_hist' /= sm_hist /\ sm_hist'[Len(sm_hist')].call = "reset")
           => sm_state' = "Ready"
      ]_vars

\* a Cancel was rejected in Transcribing and reset() then returned to Ready
C3_Witness ==
    /\ Len(sm_hist) = 3
    /\ sm_hist[2].from = "Transcribing" /\ sm_hist[2].event = "Cancel"
    /\ sm_hist[2].result = "Rejected"
    /\ sm_hist[3].from = "Transcribing" /\ sm_hist[3].call = "reset"
    /\ sm_state = "Ready"

\* C38: every call of transition either is rejected, leaving the recording
\* state as it was and returning a rejection that carries the state the call
\* found and the event it attempted, for which the table has no entry, or is
\* accepted and changes the state to the table's target, which differs from
\* the state the call found: Unchanged is never returned.
C38_RejectedKeepsAcceptedChanges ==
    [][(/\ Len(sm_hist') = Len(sm_hist) + 1
        /\ sm_hist'[Len(sm_hist')].call = "transition")
       => LET h == sm_hist'[Len(sm_hist')]
              t == compute_transition(sm_state, h.event)
          IN /\ h.from = sm_state
             /\ h.result \in {"Rejected", "Changed"}
             /\ h.result = "Rejected" <=> ~t.some
             /\ h.result = "Rejected" =>
                  /\ sm_state' = sm_state
                  /\ h.to = sm_state
                  /\ h.action = None
             /\ h.result = "Changed" =>
                  /\ sm_state' /= sm_state
                  /\ sm_state' = t.to
                  /\ h.to = t.to
                  /\ h.action = t.action]_vars

\* Stop was rejected in Ready, leaving Ready, and the Start after it was
\* accepted and moved the state to Recording
C38_Witness ==
    /\ Len(sm_hist) = 2
    /\ sm_hist[1].event = "Stop" /\ sm_hist[1].result = "Rejected"
    /\ sm_hist[1].from = "Ready" /\ sm_hist[1].to = "Ready"
    /\ sm_hist[2].event = "Start" /\ sm_hist[2].result = "Changed"
    /\ sm_hist[2].from = "Ready"
    /\ sm_state = "Recording"

\* ------------------------------------------------------------------------
\* Properties of the Controller (checked under Spec)
\* ------------------------------------------------------------------------
\* the names of the events of a sequence of UI events
EvNames(es) == [i \in 1..Len(es) |-> es[i].ev]

\* the UI events of episode ep / emitted while handling the n-th command
EventsOfEpisode(ep) == SelectSeq(log, LAMBDA e : e.ep = ep)

EventsOfCommand(n) == SelectSeq(log, LAMBDA e : e.seq = n)

BackendCallsOfCommand(n) == SelectSeq(backend_calls, LAMBDA c : c.seq = n)

PastesOfCommand(n) == SelectSeq(pasted, LAMBDA c : c.seq = n)

IsPrefixOf(s, t) == Len(s) <= Len(t) /\ \A i \in 1..Len(s) : s[i] = t[i]

\* the command whose handling is in progress or was completed last
CmdNo == Len(recv_cmds)

\* the handler of the last received command has returned
Returned == pc = "idle" /\ handling.handler /= "none"

\* C4: the Controller processes commands strictly one at a time in channel
\* (FIFO) order: a command is dequeued only when the handling of the previous
\* one has completed, it is the oldest command of the channel, and every
\* state change and every UI event belongs to the one command being
\* handled, so the changes and events of two commands never interleave.
C4_OneCommandAtATime ==
    [][ /\ (recv_cmds' /= recv_cmds) =>
              /\ pc = "idle"
              /\ chan /= << >>
              /\ recv_cmds' = Append(recv_cmds, Head(chan))
              /\ chan' = Tail(chan)
        /\ (chan' /= chan /\ recv_cmds' = recv_cmds) =>
              \E c \in RecordingCommand : chan' = Append(chan, c)
        /\ (log' /= log) =>
              /\ Len(log') = Len(log) + 1
              /\ log'[Len(log')].seq = Len(recv_cmds)
              /\ recv_cmds' = recv_cmds
              /\ pc /= "idle"
              /\ \A i \in 1..Len(log) : log'[i] = log[i] /\ log[i].seq <= Len(recv_cmds)
        /\ (state' /= state) => (pc /= "idle" \/ recv_cmds' /= recv_cmds)
      ]_vars

\* a second command waits in the channel while the first, which already
\* emitted an event, is still being handled
C4_Witness ==
    /\ pc = "stop_transcribe"
    /\ Len(recv_cmds) = 2
    /\ Len(chan) = 2
    /\ Len(EventsOfCommand(1)) = 1
    /\ Len(EventsOfCommand(2)) = 1

\* the orders of the events of an episode begun by a start
EpisodeOrders ==
    { <<"Started", "Transcribing", "Stopped">>,
      <<"Started", "Transcribing", "Error">>,
      <<"Started", "Cancelled">>,
      <<"Started", "Error">> }

\* the orders of the events of a retry attempt
RetryOrders ==
    { <<"Transcribing", "Stopped">>, <<"Transcribing", "Error">> }

C6_ErrorPipeline ==
    (Returned /\ handling.failed) =>
      /\ state = "Ready"
      /\ last_recording.text = None
      /\ Len(SelectSeq(EventsOfCommand(CmdNo), LAMBDA e : e.ev = "Error")) = 1

C8_NoSpeech ==
    (Returned /\ handling.handler = "stop" /\ job.ep = handling.ep
       /\ job.speech_duration_ms < MIN_AUDIO_DURATION_MS) =>
      /\ EvNames(EventsOfEpisode(handling.ep)) = <<"Started", "Error">>
      /\ EventsOfEpisode(handling.ep)[2].arg = "no_speech"
      /\ BackendCallsOfCommand(CmdNo) = << >>
      /\ PastesOfCommand(CmdNo) = << >>
      /\ job.path \notin DOMAIN files

\* what C9 says of a Cancel handled in Recording or RecordingLocked
CancelEffect ==
    /\ state = "Ready"
    /\ current_recording = NoRecording
    /\ recording = NoRecording
    /\ handling.file \notin DOMAIN files
    /\ EvNames(EventsOfEpisode(handling.ep)) = <<"Started", "Cancelled">>

\* what C9 says of a release of the push-to-talk key received in Ready
ReleaseInReadyIsNoOp ==
    (handling.cmd = "StopRecording" /\ handling.from = "Ready") =>
      /\ handling.handler = "ignored"
      /\ pc = "idle"
      /\ state = "Ready"
      /\ EventsOfCommand(CmdNo) = << >>
      /\ BackendCallsOfCommand(CmdNo) = << >>

HoldsSession == current_recording /= NoRecording \/ recording /= NoRecording

\* C11: whenever the recording state is Recording or RecordingLocked the
\* Controller holds an active recording session; no observer sees Recording
\* or RecordingLocked while no session exists, also while a start is in
\* progress and after a start failure.
C11_RecordingImpliesSession ==
    /\ state \in {"Recording", "RecordingLocked"} => HoldsSession
    /\ shared_state \in {StateValue("Recording"), StateValue("RecordingLocked")}
         => HoldsSession

\* the Transcribing event of the command being handled was emitted and the
\* transcription has not returned yet
InTranscribing == pc \in {"stop_transcribe", "retry_transcribe"}

\* C12: whenever the recording state is Transcribing, a finalized WAV file
\* for that attempt exists on disk, also when Transcribing is entered by a
\* retry, whatever LastRecording.audio_file_path contains and whether or not
\* dismiss_error removed the file.
C12_TranscribingImpliesFile ==
    InTranscribing => job.path \in DOMAIN files

\* the Stopped and Error events among the events es
TerminalEvents(es) == SelectSeq(es, LAMBDA e : e.ev \in {"Stopped", "Error"})

\* C39: every attempt (handle_stop or handle_retry_transcription of one
\* command) that emitted Transcribing emits at most one Stopped or Error
\* event, and has emitted exactly one once its handler has returned, on every
\* path, the failure to open the config store and the failure of the paste
\* step included.
C39_TranscribingGetsOneTerminal ==
    \A n \in 1..Len(recv_cmds) :
      LET es == EventsOfCommand(n) IN
      (\E i \in 1..Len(es) : es[i].ev = "Transcribing") =>
        /\ Len(TerminalEvents(es)) <= 1
        /\ (n < Len(recv_cmds) \/ pc = "idle") => Len(TerminalEvents(es)) = 1

\* ------------------------------------------------------------------------
\* Properties of the KeyListener (checked under SpecKeys, SpecUI, SpecModes)
\* ------------------------------------------------------------------------
\* the callback has processed a key event in Normal mode
NormalEvent == kl_ev.type /= "none" /\ kl_ev.mode.kind = "Normal"

\* the commands the callback sent for one edge of the event it processes
SentBy(tags) ==
    LET es == SelectSeq(kl_ev.sent, LAMBDA e : e.by \in tags)
    IN [i \in 1..Len(es) |-> es[i].cmd]

\* C13: in Normal mode the push-to-record rising edge fires exactly once per
\* maximal interval during which the pressed keys match the push_to_record
\* shortcut, that is on the event that begins the interval and on no other (a
\* repeated press does not re-fire); the falling edge fires exactly once, on
\* the event that ends the interval, never on a release that leaves the
\* shortcut matched.
C13_EdgesAtIntervalBounds ==
    NormalEvent =>
      /\ kl_ev.rose_push = (~kl_ev.was_push /\ kl_ev.is_push)
      /\ kl_ev.fell_push = (kl_ev.was_push /\ ~kl_ev.is_push)

\* C14: on a push-to-record rising edge the listener sends StartRecording only
\* if the recording state is not busy, and StopRecording instead if it is
\* RecordingLocked; on a falling edge it sends StopRecording iff the state is
\* not RecordingLocked.
C14_PushToRecordEdges ==
    NormalEvent =>
      /\ (kl_ev.rose_push /\ is_busy(kl_ev.push_read)) =>
            \A i \in 1..Len(SentBy({"push"})) :
              SentBy({"push"})[i] /= "StartRecording"
      /\ (kl_ev.rose_push /\ kl_ev.push_read = "RecordingLocked" /\ kl_pc /= "push_send") =>
            SentBy({"push"}) = <<"StopRecording">>
      /\ (kl_ev.fell_push /\ kl_ev.done) =>
            (SentBy({"release"}) = <<"StopRecording">>)
              = (kl_ev.release_read /= "RecordingLocked")

\* C15: on a hands-free rising edge while the recording state is busy the
\* listener sends exactly one StopRecording and neither StartRecording nor
\* LockRecording.
C15_HandsFreeEdgeWhileBusy ==
    (NormalEvent /\ kl_ev.rose_hf /\ kl_ev.hf_read /= "None"
       /\ is_busy(kl_ev.hf_read)) =>
      /\ \A i \in 1..Len(SentBy({"hf_start", "hf_lock", "hf_stop"})) :
            SentBy({"hf_start", "hf_lock", "hf_stop"})[i] = "StopRecording"
      /\ kl_ev.done => SentBy({"hf_start", "hf_lock", "hf_stop"}) = <<"StopRecording">>

\* C16: on a hands-free rising edge while not busy the listener enqueues
\* StartRecording immediately followed by LockRecording as an atomic pair:
\* under every interleaving with the other producers of the command channel
\* the Controller never dequeues another command between the two.
C16_StartLockPairAtomic ==
    \A i \in 1..Len(recv_cmds) :
      (senders[i].by = "hf_start" /\ i < Len(recv_cmds)) =>
        /\ senders[i + 1].by = "hf_lock"
        /\ senders[i + 1].ev = senders[i].ev

\* the hands-free combo was pressed while the recording was locked, the
\* callback returned and the Controller has handled every command sent
ToggledOff ==
    /\ NormalEvent
    /\ kl_ev.type = "press"
    /\ kl_ev.rose_hf
    /\ kl_ev.hf_read = "RecordingLocked"
    /\ kl_ev.done
    /\ kl_pc = "wait"
    /\ chan = << >>
    /\ pc = "idle"

\* C17: hands-free toggle with push-to-record {Fn} and hands-free {Fn, Space}:
\* after the combo was pressed and released (state RecordingLocked), pressing
\* the combo again always ends the recording (StopAndTranscribe is executed)
\* and the episode's events are Started, Transcribing, Stopped in that order.
C17_HandsFreeToggle ==
    (ToggledOff /\ kl_ev.mode.shortcuts = DefaultShortcuts) =>
      /\ state = "Ready"
      /\ current_recording = NoRecording
      /\ handling.handler = "stop"
      /\ IsPrefixOf(<<"Started", "Transcribing">>, EvNames(EventsOfEpisode(episode)))
      /\ ~handling.failed =>
           EvNames(EventsOfEpisode(episode)) = <<"Started", "Transcribing", "Stopped">>

\* the command the Controller has just dequeued is executed as
\* StopAndTranscribe (handle_stop is called)
StopDispatched == recv_cmds' /= recv_cmds /\ handling'.handler = "stop"

\* C18: after a hands-free start from Ready, releasing the combo keys never
\* stops the recording: under every interleaving of the KeyListener thread
\* and the Controller thread, a StopRecording sent by a key release while the
\* hands-free start is in force is never executed as StopAndTranscribe, and
\* after a hands-free start made from a quiet Ready state no
\* StopAndTranscribe is executed at all until a key is pressed again or the
\* UI sends a stop or cancel.
C18_ReleaseNeverStopsHandsFree ==
    [][ StopDispatched =>
          /\ ~(senders[Len(recv_cmds')].by = "release" /\ senders[Len(recv_cmds')].armed)
          /\ ~quiet
      ]_vars

\* a StopRecording sent by the release of Fn after a hands-free start from a
\* quiet Ready state was received in RecordingLocked and ignored, the
\* recording still running
C18_Witness ==
    /\ recv_cmds /= << >>
    /\ senders[Len(recv_cmds)].by = "release"
    /\ senders[Len(recv_cmds)].armed
    /\ handling.cmd = "StopRecording"
    /\ handling.handler = "ignored"
    /\ handling.from = "RecordingLocked"
    /\ state = "RecordingLocked"
    /\ current_recording /= NoRecording
    /\ armed
    /\ quiet

\* a key event has just been taken by the grab callback
KeyEventTaken == n_keys' = n_keys + 1

\* C19: after any mode update is sent to the KeyListener, the first key event
\* processed afterwards is handled under the most recently sent mode (all
\* pending updates are drained, in send order, before the event is
\* classified), and the pressed-key set is empty when that event is
\* classified.
C19_ModeChangeAtomicity ==
    [][ KeyEventTaken =>
          /\ mode_rx' = << >>
          /\ kl_ev'.drained = Len(mode_rx)
          /\ (last_sent_mode /= NoMode) =>
                /\ mode' = last_sent_mode
                /\ kl_ev'.mode = last_sent_mode
          /\ (mode_rx /= << >>) => kl_ev'.pressed_at_start = {}
          /\ (mode_rx = << >>) => (mode' = mode /\ kl_ev'.pressed_at_start = pressed_keys)
          /\ (kl_ev'.ui /= "None") = (kl_ev'.mode.kind = "Capture")
      ]_vars

\* two mode updates were pending, Capture first and new shortcuts last, while
\* a key was held; the next key event drained both and was matched against
\* the new shortcuts with an empty pressed-key set
C19_Witness ==
    /\ kl_ev.drained = 2
    /\ kl_ev.type = "press"
    /\ kl_ev.mode.kind = "Normal"
    /\ kl_ev.mode = last_sent_mode
    /\ kl_ev.pressed_at_start = {}
    /\ Cardinality(down) = 2
    /\ kl_ev.rose_hf
    /\ ~kl_ev.rose_push

\* C20: while the KeyListener is in Capture mode every key press and every
\* key release is suppressed and forwarded to the UI as a KeyDown / KeyUp
\* event, and no RecordingCommand is sent whatever keys are pressed, the
\* configured shortcuts included.
C20_CaptureSwallowsAndForwards ==
    /\ (kl_ev.type /= "none" /\ kl_ev.mode.kind = "Capture") =>
          /\ kl_ev.suppressed
          /\ kl_ev.ui = (IF kl_ev.type = "press" THEN "KeyDown" ELSE "KeyUp")
          /\ kl_ev.sent = << >>
          /\ kl_ev.done
          /\ ~kl_ev.rose_push /\ ~kl_ev.rose_hf /\ ~kl_ev.fell_push
    /\ (mode.kind = "Capture") =>
          /\ kl_pc = "wait"
          /\ kl_out = << >>
          /\ kl_ev.type /= "none"
          /\ kl_ev.mode.kind = "Capture"

\* in Capture mode Fn was pressed and released (the push-to-record shortcut of
\* both configs): both events were swallowed and no command was sent
C20_Witness ==
    /\ mode.kind = "Capture"
    /\ n_keys = 3
    /\ kl_ev.type = "release"
    /\ kl_ev.key = FN_KEYCODE
    /\ kl_ev.ui = "KeyUp"
    /\ kl_ev.suppressed
    /\ sent_cmds = << >>
    /\ down = {SPACE_KEYCODE}

\* a push-to-talk recording is in progress with its key still held: the last
\* command sent is the StartRecording of a push-to-record rising edge, the
\* Controller is Recording, and Fn, the push-to-record key of every
\* configuration, is the one key held down
PushToTalkHeld ==
    /\ kl_pc = "wait"
    /\ sent_cmds /= << >>
    /\ sent_cmds[Len(sent_cmds)] = "StartRecording"
    /\ senders[Len(senders)].by = "push"
    /\ state = "Recording"
    /\ shared_state = StateValue("Recording")
    /\ down = {FN_KEYCODE}

\* C40: when a mode update was applied while the push-to-record shortcut is
\* held and a push-to-talk recording is in progress, the key event that
\* releases the shortcut's last key still sends StopRecording.
C40_ReleaseAfterModeUpdateStops ==
    [][(/\ PushToTalkHeld
        /\ KeyEventTaken
        /\ kl_ev'.type = "release"
        /\ kl_ev'.key = FN_KEYCODE
        /\ kl_ev'.drained > 0)
       => (kl_pc' = "release_send" /\ kl_out' = <<"StopRecording">>)]_vars

\* C21: whenever the KeyListener suppresses a key press, it also suppresses
\* the paired release of that key: the focused application never receives a
\* release for a key whose press it did not receive.
C21_PairedReleaseSuppressed ==
    [][ (KeyEventTaken /\ kl_ev'.type = "release" /\ kl_ev'.key \in swallowed)
          => kl_ev'.suppressed
      ]_vars

\* the grab callback is waiting in command_tx.blocking_send for room in the
\* command channel
CallbackBlocked ==
    /\ kl_pc \in {"push_send", "hf_send", "release_send"}
    /\ kl_out /= << >>
    /\ Len(chan) >= ChanCap

\* C22: the callback run by the KeyListener never blocks: for any sequence of
\* key events and any progress of the Controller, a Controller busy with a
\* transcription and a full command channel included, handling a key event
\* completes without waiting for the Controller to dequeue a command.
C22_CallbackNeverBlocks == ~CallbackBlocked

\* the keycodes of a shortcut, as a set
KeySet(keys) == { keys[i] : i \in 1..Len(keys) }

\* matches(P) is true exactly when |P| is the number of keys and every key
\* is in P
MatchesExactly ==
    sc_call.result <=>
        /\ Cardinality(sc_call.pressed_keys) = Len(sc_call.keys)
        /\ KeySet(sc_call.keys) \subseteq sc_call.pressed_keys

StrictSuperset ==
    /\ KeySet(sc_call.keys) \subseteq sc_call.pressed_keys
    /\ KeySet(sc_call.keys) /= sc_call.pressed_keys

StrictSubset ==
    /\ sc_call.pressed_keys \subseteq KeySet(sc_call.keys)
    /\ KeySet(sc_call.keys) /= sc_call.pressed_keys

DistinctKeys == Cardinality(KeySet(sc_call.keys)) = Len(sc_call.keys)

ValidShortcut(keys) ==
    /\ Len(keys) >= 1
    /\ Len(keys) <= 3
    /\ \A i, j \in 1..Len(keys) : i /= j => keys[i] /= keys[j]

\* C24: validate accepts a shortcut iff it has between 1 and 3 keys and no
\* two of them share a keycode; and save_shortcuts_config validates both
\* shortcuts before anything else: an invalid configuration is neither
\* stored nor sent to the KeyListener.
C24_ValidateBeforeSave ==
    [][ (sc_call'.op = "save" /\ sc_call' /= sc_call) =>
          LET config == sc_call'.config
              valid == /\ ValidShortcut(config.push_to_record)
                       /\ ValidShortcut(config.hands_free)
          IN
          /\ (sc_call'.push_validate = "Ok") <=> ValidShortcut(config.push_to_record)
          /\ (sc_call'.hands_free_validate /= "not called") =>
                ((sc_call'.hands_free_validate = "Ok")
                    <=> ValidShortcut(config.hands_free))
          /\ (sc_call'.hands_free_validate = "not called") =>
                ~ValidShortcut(config.push_to_record)
          /\ ~valid =>
                /\ config_store' = config_store
                /\ mode_rx' = mode_rx
                /\ last_sent_mode' = last_sent_mode
                /\ ~sc_call'.stored
                /\ ~sc_call'.sent
                /\ sc_call'.result /= "Ok"
          /\ valid => config_store' = [present |-> TRUE, value |-> config]
          /\ sc_call'.sent =>
                /\ valid
                /\ mode_rx' = Append(mode_rx, NormalMode(config))
      ]_vars

\* save_shortcuts_config was called on an empty store with a valid
\* push-to-record shortcut and a hands-free shortcut that repeats Fn: it
\* returned the duplicate error, the store is still empty and nothing was sent
C24_Witness ==
    /\ sc_call.op = "save"
    /\ sc_call.config.push_to_record = <<FN_KEYCODE>>
    /\ sc_call.config.hands_free = <<FN_KEYCODE, SPACE_KEYCODE, FN_KEYCODE>>
    /\ sc_call.push_validate = "Ok"
    /\ sc_call.hands_free_validate = "Duplicate key"
    /\ sc_call.result = "Duplicate key"
    /\ config_store = NoStoredConfig
    /\ mode_rx = << >>

\* C25: for any sequence of audio callbacks delivering N post-resample mono
\* samples in total with the VAD enabled, exactly floor(N / 512) frames of
\* exactly 512 samples each are pushed to the VAD, in sample order, and the
\* N mod 512 leftover samples stay in the accumulator for the next callback:
\* no sample is dropped, duplicated or reordered by the framing.
C25_VadFraming ==
    vad_enabled =>
        /\ Len(pushed) = n_samples \div FRAME_SAMPLES
        /\ Len(emitted) = Len(pushed)
        /\ \A k \in 1..Len(pushed) :
              /\ Len(pushed[k]) = FRAME_SAMPLES
              /\ pushed[k] = Samples((k - 1) * FRAME_SAMPLES + 1, k * FRAME_SAMPLES)
        /\ Len(vad_buffer) = n_samples % FRAME_SAMPLES
        /\ vad_buffer = Samples(Len(pushed) * FRAME_SAMPLES + 1, n_samples)
        /\ Concat(pushed) \o vad_buffer = Samples(1, n_samples)

\* three callbacks of 200, 700 and 512 samples were delivered with the VAD
\* enabled: two frames were pushed and 388 samples wait in the accumulator
C25_Witness ==
    /\ vad_enabled
    /\ n_callbacks = 3
    /\ n_samples = 1412
    /\ Len(pushed) = 2
    /\ Len(vad_buffer) = 388
    /\ vad_buffer[1] = 1025

\* the inner-voice decisions are F,F,T,T followed by F only
HysteresisInput ==
    /\ Len(inner) >= 8
    /\ SubSeq(inner, 1, 4) = <<"noise", "noise", "voice", "voice">>
    /\ \A k \in 5..Len(inner) : inner[k] = "noise"

\* the frames k-2, k-1 (the prefill) and k, as emitted at a speech onset
OnsetSamples(k) == FrameNo(k - 2) \o FrameNo(k - 1) \o FrameNo(k)

Noise == [kind |-> "Noise", samples |-> << >>]

Speech(samples) == [kind |-> "Speech", samples |-> samples]

\* the output for frame k when the onset is at frame onset_at and the last
\* Speech frame is frame 7: N before the onset, S(prefill ++ frame) at it,
\* S up to frame 7, N from frame 8 on
HysteresisOutput(k, onset_at) ==
    IF k < onset_at THEN Noise
    ELSE IF k = onset_at THEN Speech(OnsetSamples(k))
    ELSE IF k <= 7 THEN Speech(FrameNo(k))
    ELSE Noise

\* C26 as stated: with onset 2, hangover 3, prefill 2 and the decisions
\* F,F,T,T,F,F,F,...,F SmoothedVad emits N,N,S(prefill ++ frame),S,S,S,S,N,N,...:
\* the onset emits the buffered prefill frames followed by the current
\* frame, and exactly 3 Speech frames follow the last voiced frame.
C26_HysteresisSequence ==
    HysteresisInput =>
        \A k \in 1..Len(emitted) : emitted[k] = HysteresisOutput(k, 3)

\* C26 amended: SmoothedVad emits N,N,N,S(prefill ++ frame),S,S,S,N,N,...: the
\* first voiced frame is still Noise, the onset at the second voiced frame
\* emits the 2 buffered prefill frames followed by the current frame, and
\* exactly 3 Speech frames follow the last voiced frame.
C26_HysteresisSequenceOnsetAtSecond ==
    HysteresisInput =>
        \A k \in 1..Len(emitted) : emitted[k] = HysteresisOutput(k, 4)

\* the nine frames were pushed: speech began at the fourth frame, which
\* came out with frames 2 and 3 before it, and ended after the seventh
C26_Witness ==
    /\ HysteresisInput
    /\ Len(emitted) = 9
    /\ emitted[3].kind = "Noise"
    /\ emitted[4].kind = "Speech"
    /\ Len(emitted[4].samples) = 3 * FRAME_SAMPLES
    /\ emitted[7].kind = "Speech"
    /\ emitted[8].kind = "Noise"
    /\ ~vad.in_speech

RECURSIVE SpeechSamples(_)
\* the samples of the frames emitted as Speech, in order
SpeechSamples(outs) ==
    IF outs = << >> THEN << >>
    ELSE (IF Head(outs).kind = "Speech" THEN Head(outs).samples ELSE << >>)
           \o SpeechSamples(Tail(outs))

HandedFor(k) ==
    CASE emitted[k].kind = "Speech" -> emitted[k].samples
      [] emitted[k].kind = "Err" -> pushed[k]
      [] OTHER -> << >>

RECURSIVE HandedSamples(_)
\* the samples handed to the writer for the frames k, k+1, ...
HandedSamples(k) ==
    IF k > Len(emitted) THEN << >> ELSE HandedFor(k) \o HandedSamples(k + 1)

RECURSIVE TakenSamples(_, _)
\* the same without the samples of the write that failed; w writes were made
\* for the frames before k
TakenSamples(k, w) ==
    IF k > Len(emitted) THEN << >>
    ELSE IF emitted[k].kind = "Noise" THEN TakenSamples(k + 1, w)
    ELSE (IF w + 1 = write_fail THEN << >> ELSE HandedFor(k))
           \o TakenSamples(k + 1, w + 1)

VerifyStep(t) ==
    /\ ml_call[t].op = "transcribe_with_model"
    /\ ml_pc[t] = "verify"
    /\ ml_pc'[t] = "idle"

\* C28: transcribe_with_model(name, wav) never runs inference with a model
\* whose name differs from name: every inference is run by the last step of a
\* transcribe_with_model call, which looks at current_model again after the
\* on-demand load; it infers with the model called name when that is the one
\* loaded, and when another thread swapped or unloaded the model in between
\* it runs no inference and returns an error.
C28_NoInferenceWithOtherModel ==
    [][/\ \A i \in ml_inferences' : i.used = i.requested
       /\ ml_inferences' /= ml_inferences => \E t \in Threads : VerifyStep(t)
       /\ \A t \in Threads :
            VerifyStep(t) =>
              IF current_model = SomeModel(ml_call[t].name)
                THEN /\ ml_inferences' = ml_inferences \cup
                          {[requested |-> ml_call[t].name,
                            used |-> ml_call[t].name]}
                     /\ ml_call'[t].result \in {"Ok(text)", "transcribe_file failed"}
                ELSE /\ ml_inferences' = ml_inferences
                     /\ ml_call'[t].result =
                          IF current_model.present
                            THEN "Model changed during transcription"
                            ELSE "Model was unloaded during transcription"]_vars

\* a transcribe_with_model call loaded its model on demand, another thread
\* stored a different model before the second look, and the call returned the
\* error
C28_Witness ==
    \E t \in Threads :
        /\ ml_call[t].op = "transcribe_with_model"
        /\ ml_call[t].client = "Ok(client)"
        /\ ml_call[t].result = "Model changed during transcription"
        /\ current_model.present
        /\ current_model.name /= ml_call[t].name
        /\ ml_inferences = {}

\* the threads with a load in progress: loading is marked by the thread and
\* not yet cleared by it
LoadsInProgress ==
    { t \in Threads :
        ml_pc[t] \in {"emit_started", "lookup", "unload_model",
                      "LocalClient::new", "clear_loading"} }

\* the threads about to store the model they built in current_model
AboutToStore ==
    { t \in Threads :
        /\ ml_pc[t] = "match_result"
        /\ ml_call[t].client \in {"Ok(Ok(client))", "Ok(client)"} }

\* C29: under any interleaving of concurrent load_model / load_model_sync
\* calls at most one load is in progress at a time, loading is marked as long
\* as a load is in progress (so that a caller arriving then is refused with
\* 'Another model is currently loading'), and a new model is stored only
\* after the previous one was unloaded.
C29_OneLoadOneModel ==
    /\ Cardinality(LoadsInProgress) <= 1
    /\ LoadsInProgress /= {} => loading.present
    /\ AboutToStore /= {} => ~current_model.present

\* the events of the load_model call numbered id, in the order emitted
EventsOf(id) == SelectSeq(ml_events, LAMBDA e : e.call = id)

\* C30: every load that emits Started(name) emits exactly one terminal event
\* for the same name, Complete(name) or Error(name, msg), on every path of
\* load_model, and nothing after it: the events of a call are Started alone
\* while the call runs, and Started followed by one terminal event once it
\* has returned.
C30_StartedThenOneTerminal ==
    /\ \A id \in 1..n_loader_calls :
         LET es == EventsOf(id) IN
         /\ Len(es) <= 2
         /\ Len(es) >= 1 => es[1].kind = "Started"
         /\ Len(es) = 2 => /\ es[2].kind \in {"Complete", "Error"}
                           /\ es[2].model_name = es[1].model_name
    /\ \A t \in Threads :
         (ml_pc[t] = "idle" /\ ml_call[t].op = "load_model"
            /\ EventsOf(ml_call[t].id) /= << >>)
           => Len(EventsOf(ml_call[t].id)) = 2

\* C37: after any load_model or load_model_sync call returns (success, model
\* not in the catalog, model file missing, initialization failure) the
\* 'currently loading' marker the call set is cleared: loading is marked only
\* while some thread has a load in progress, so a later load is never refused
\* with 'Another model is currently loading' when no load is running.
C37_LoadingClearedOnReturn ==
    loading.present => LoadsInProgress /= {}

\* ------------------------------------------------------------------------
\* Properties of the paste step (checked under SpecPaste)
\* ------------------------------------------------------------------------
\* the paste ran to its end, restore included, and returned Ok, every one of
\* its clipboard accesses succeeded, and it had a clipboard text to restore
PasteCompleted ==
    /\ ps_pc = "done"
    /\ ps_call.result = "Ok"
    /\ ps_call.previous_clipboard.present
    /\ \A i \in 1..Len(cb_log) : cb_log[i].by = "paste" => cb_log[i].ok

\* the positions in cb_log of the texts copied by others
ForeignWrites == { i \in 1..Len(cb_log) : cb_log[i].by = "foreign" }

\* the position in cb_log where the paste wrote its text
PasteWrite ==
    CHOOSE i \in 1..Len(cb_log) :
        /\ cb_log[i] = ClipboardAccess("paste", "set", ps_call.text, TRUE)
        /\ \A j \in 1..(i - 1) : cb_log[j].by = "paste" => cb_log[j].op = "get"

\* the last text copied by others
LastForeignWrite ==
    cb_log[CHOOSE i \in ForeignWrites : \A j \in ForeignWrites : j <= i]

\* C31: paste_text(X) for non-empty X on a clipboard initially holding Y
\* leaves the clipboard holding Y when nobody else writes to it; when a
\* foreign writer sets the clipboard to Z after X was written and before the
\* restore, the clipboard ends holding Z.
C31_PasteRoundTrip ==
    PasteCompleted =>
      /\ ForeignWrites = {} => clipboard = ps_call.previous_clipboard
      /\ (\E i \in ForeignWrites : i > PasteWrite) =>
           clipboard = SomeText(LastForeignWrite.text)

\* C32: pasting an empty text returns an error (EmptyText from paste_text,
\* 'Cannot paste empty text' from auto_paste_text and
\* auto_paste_text_cgevent) and has no side effect: the paste neither reads
\* nor writes the clipboard and no paste keystroke is synthesized.
C32_EmptyTextNoSideEffect ==
    ps_call.function /= "none" /\ ps_call.text = "" =>
      /\ ps_pc \in {"guard", "done"}
      /\ \A i \in 1..Len(cb_log) : cb_log[i].by /= "paste"
      /\ ps_keys = << >>
      /\ clipboard = IF ForeignWrites = {}
                       THEN IF clipboard.present THEN SomeText("Y") ELSE NoText
                       ELSE SomeText(LastForeignWrite.text)
      /\ ps_pc = "done" =>
           ps_call.result = IF ps_call.function = "paste_text"
                              THEN "EmptyText"
                              ELSE "Cannot paste empty text"

\* paste_text("") has returned
C32_Witness ==
    /\ ps_call.function = "paste_text"
    /\ ps_call.text = ""
    /\ ps_pc = "done"
    /\ ps_call.result = "EmptyText"
    /\ clipboard = SomeText("Y")

\* ------------------------------------------------------------------------
\* Properties of the transcription wrapper (checked under SpecTranscribe)
\* ------------------------------------------------------------------------
\* C33: Transcriber::transcribe(path, duration): if the voiced duration is
\* below the configured min_speech_duration_ms it returns Ok(empty string)
\* without contacting any backend; otherwise it returns FileNotFound when the
\* file does not exist and FileTooLarge when its size exceeds 25 MiB, and it
\* calls the backend's transcribe only when all three checks pass.
C33_PreCallValidation ==
    tx_call.op = "transcribe" =>
      /\ tx_in.duration_ms < tx_in.min_speech_duration_ms =>
           tx_call = TranscribeCall("Ok", "", FALSE)
      /\ (tx_in.duration_ms >= tx_in.min_speech_duration_ms /\ ~tx_in.exists) =>
           tx_call = TranscribeCall("FileNotFound", "", FALSE)
      /\ (tx_in.duration_ms >= tx_in.min_speech_duration_ms /\ tx_in.exists
            /\ tx_in.file_size > MAX_FILE_SIZE_BYTES) =>
           tx_call.result \in {"FileTooLarge", "IoError"} /\ ~tx_call.service_called
      /\ tx_call.service_called =>
           /\ tx_in.duration_ms >= tx_in.min_speech_duration_ms
           /\ tx_in.exists
           /\ tx_in.file_size <= MAX_FILE_SIZE_BYTES

\* ------------------------------------------------------------------------
\* Properties of recording sessions on one VAD (checked under SpecSessions)
\* ------------------------------------------------------------------------
\* what a freshly constructed detector sv answers for the frames numbered
\* k..last, given the inner detector's answers for them
RECURSIVE FreshOutputs(_, _, _)
FreshOutputs(sv, k, last) ==
    IF k > last THEN << >>
    ELSE LET r == push_frame(sv, pushed[k], inner[k])
         IN <<r.out>> \o FreshOutputs(r.vad, k + 1, last)

\* C34: after reset() SmoothedVad behaves exactly like a freshly constructed
\* detector (empty pre-roll buffer, counters 0, in_speech false, inner
\* detector reset), and reset is performed at the start of every recording
\* session: at the start of a session the detector is the one created by
\* create_vad, what it answers in the session is what a fresh detector
\* answers for the same frames, and it emits no sample of an earlier session.
C34_ResetIsFresh ==
    LET fresh == SmoothedVad(VAD_PREFILL_FRAMES, VAD_HANGOVER_FRAMES,
                             VAD_ONSET_FRAMES)
    IN
    /\ Len(pushed) = session_first => vad = fresh
    /\ SubSeq(emitted, session_first + 1, Len(emitted))
         = FreshOutputs(fresh, session_first + 1, Len(pushed))
    /\ \A i \in (session_first + 1)..Len(emitted) :
         \A j \in 1..Len(emitted[i].samples) :
             emitted[i].samples[j] > session_first * FRAME_SAMPLES

\* a second session started with frames in the pre-roll buffer and a taken
\* inner state left by the first, and reached a speech onset of its own
C34_Witness ==
    /\ n_sessions = 2
    /\ session_first >= 2
    /\ \E k \in 1..session_first : inner[k] = "error"
    /\ \E k \in 1..session_first : inner[k] = "voice"
    /\ Len(emitted) = session_first + 2
    /\ emitted[Len(emitted)].kind = "Speech"
    /\ Len(emitted[Len(emitted)].samples) = 2 * FRAME_SAMPLES

\* ------------------------------------------------------------------------
\* Properties of two speech segments on the recorder's VAD (checked under
\* SpecOnsets)
\* ------------------------------------------------------------------------
\* the numbers of the first and of the last frame in the samples of a Speech
\* answer
FirstFrame(out) == ((out.samples[1] - 1) \div FRAME_SAMPLES) + 1
LastFrame(out) == out.samples[Len(out.samples)] \div FRAME_SAMPLES

\* number of samples in the Speech answers among the first k answers
RECURSIVE SpeechCount(_)
SpeechCount(k) ==
    IF k = 0 THEN 0
    ELSE SpeechCount(k - 1)
           + (IF emitted[k].kind = "Speech" THEN Len(emitted[k].samples) ELSE 0)

\* C36: no captured 512-sample frame is written to the output WAV more than
\* once: the frames emitted as pre-roll at a speech onset never include a
\* frame already emitted as Speech, so the number of speech samples never
\* exceeds the number of samples captured.
C36_NoFrameEmittedTwice ==
    /\ \A i, j \in 1..Len(emitted) :
         (i < j /\ emitted[i].kind = "Speech" /\ emitted[j].kind = "Speech") =>
           LastFrame(emitted[i]) < FirstFrame(emitted[j])
    /\ SpeechCount(Len(emitted)) <= Len(pushed) * FRAME_SAMPLES

\* ------------------------------------------------------------------------
\* Properties of the event tap (checked under SpecTap)
\* ------------------------------------------------------------------------
\* event_tap_callback handles the posted tap-disabled event in this step
TapDisabledHandled == notification /= "None" /\ notification' = "None"

\* the tap-disabled event handled last found the permission gone
StoppedByCallback ==
    tap_calls /= << >> /\ ~tap_calls[Len(tap_calls)].granted

\* C35: on every tap-disabled event (by timeout or by user input) the
\* callback calls tap_enable once if the accessibility permission is granted
\* at that moment and leaves the run loop running, and otherwise calls
\* tap_enable not at all and stops the run loop; it never makes a second
\* attempt for the same event; grab returns Ok only with the polling thread
\* joined, and after the callback stopped the run loop grab does return.
C35_TapDisabledHandling ==
    /\ [][TapDisabledHandled =>
            LET c == tap_calls'[Len(tap_calls')] IN
            /\ Len(tap_calls') = Len(tap_calls) + 1
            /\ c.event_type = notification
            /\ c.granted = accessibility
            /\ c.enable_calls = (IF accessibility THEN 1 ELSE 0)
            /\ c.stop_calls = (IF accessibility THEN 0 ELSE 1)
            /\ IF accessibility
                 THEN run_loop' = "running"
                 ELSE run_loop' = "stopped" /\ ~tap_enabled']_vars
    /\ [][~TapDisabledHandled => tap_calls' = tap_calls]_vars
    /\ [](grab_pc = "Ok" =>
            /\ poll_pc = "stopped"
            /\ stop_polling
            /\ run_loop = "stopped")
    /\ (StoppedByCallback ~> grab_pc = "Ok")

\* the tap was disabled twice: re-enabled the first time, with the permission
\* granted, and the run loop stopped the second time, with the permission
\* revoked; grab has returned after joining the polling thread
C35_Witness ==
    /\ Len(tap_calls) = 2
    /\ tap_calls[1].granted /\ tap_calls[1].enable_calls = 1
    /\ ~tap_calls[2].granted /\ tap_calls[2].stop_calls = 1
    /\ grab_pc = "Ok"
    /\ poll_pc = "stopped"

====
